---- MODULE Spec2Model ----
(***************************************************************************)
(* A model of the HTML-quiz-to-Udemy-CSV converter (csv_converter), of the *)
(* UdemyCSVGenerator and of the DomainSuggester of                         *)
(* mfreliszka/udemy_test_maker.                                            *)
(*                                                                         *)
(* Representation.  A text (a Python str) is a sequence of characters,     *)
(* each a one-character string; the six characters of the literal entity   *)
(* "&nbsp;" are carried as the single element "&nbsp;" (the entity cannot  *)
(* overlap itself, so str.replace acts on it element by element).          *)
(* An optional value (Python None / a node that find() does not find) is   *)
(* None == <<>>, a present value x is Some(x) == <<x>>.                     *)
(* Positions ("1", "2", ... in the code) are carried as integers; str()    *)
(* and ','.join are injective on them.                                     *)
(***************************************************************************)
EXTENDS Integers, Sequences, FiniteSets, TLC

VARIABLES
    raw,             \* clean_text: the argument of the call under study
    once,            \* clean_text(raw), once computed
    twice,           \* clean_text(clean_text(raw)), once computed
    html_content,    \* convert_html_to_csv: the document read from the input file
    soup,            \* the parsed tree (extract_question_data edits it in place)
    pc,              \* position of convert_html_to_csv
    idx,             \* number of quiz items the extraction loop has processed
    questions_data,  \* the list of extracted questions (converter)
    csv_rows,        \* the data rows written to the output file
    question,        \* a stored Question with its answers (generator input)
    gen_rows,        \* UdemyCSVGenerator.questions_data
    added,           \* history: the questions added to the generator since the last clear
    store,           \* the records of the database (Exam, Domain, Question with its Answers)
    call,            \* the last call made on the component under study, with its arguments
    result           \* what that call returned (for save_to_file: what it wrote)

vars == <<raw, once, twice, html_content, soup, pc, idx, questions_data, csv_rows,
          question, gen_rows, added, store, call, result>>

cleanVars == <<raw, once, twice>>
convVars  == <<html_content, soup, pc, idx, questions_data, csv_rows>>
genVars   == <<question, gen_rows, added>>
sugVars   == <<store, call, result>>

----------------------------------------------------------------------------
(* Bounds of the model *)

MaxLen == 4          \* longest text given to clean_text
MaxAnswerItems == 2  \* answer items of a quiz item in the marker family
MaxPos == 2          \* largest data-pos attribute
MaxItems == 2        \* quiz items of a multi-item document
MaxAnswers == 8      \* answer items of a quiz item in the many-answers family
MaxGenRows == 2      \* rows accumulated by one generator

(* Program constants *)

MaxSlots == 6        \* Answer Option / Explanation slots of a row
MaxOrder == 7        \* largest Answer.order

----------------------------------------------------------------------------
(* Optional values and small helpers *)

None == <<>>
Some(x) == <<x>>
IsNone(o) == o = <<>>
The(o) == o[1]

Min(S) == CHOOSE x \in S : \A y \in S : x <= y
Max(S) == CHOOSE x \in S : \A y \in S : x >= y

SeqsUpTo(S, n) == UNION {[1..k -> S] : k \in 0..n}

RECURSIVE Concat(_)
Concat(ss) == IF ss = <<>> THEN <<>> ELSE Head(ss) \o Concat(Tail(ss))

RECURSIVE Join(_, _)
Join(sep, ss) ==
    IF ss = <<>> THEN <<>>
    ELSE IF Len(ss) = 1 THEN ss[1]
    ELSE ss[1] \o sep \o Join(sep, Tail(ss))

----------------------------------------------------------------------------
(* Characters *)

NBSP == "&nbsp;"

IsSpace(c) == c \in {" ", "\n", "\t"}

UpperCase == <<"A","B","C","D","E","F","G","H","I","J","K","L","M",
               "N","O","P","Q","R","S","T","U","V","W","X","Y","Z">>
LowerCase == <<"a","b","c","d","e","f","g","h","i","j","k","l","m",
               "n","o","p","q","r","s","t","u","v","w","x","y","z">>

IsUpper(c) == \E k \in 1..Len(UpperCase) : UpperCase[k] = c
IsLower(c) == \E k \in 1..Len(LowerCase) : LowerCase[k] = c

\* str.upper() and str.lower() on one character
ToUpper(c) == IF IsLower(c)
              THEN UpperCase[CHOOSE k \in 1..Len(LowerCase) : LowerCase[k] = c]
              ELSE c
ToLower(c) == IF IsUpper(c)
              THEN LowerCase[CHOOSE k \in 1..Len(UpperCase) : UpperCase[k] = c]
              ELSE c

\* ord(letter) - ord('A') + 1 for an upper-case letter
LetterNumber(c) == CHOOSE k \in 1..Len(UpperCase) : UpperCase[k] = c

----------------------------------------------------------------------------
(* clean_text *)

\* str.strip()
Strip(s) ==
    LET keep == {k \in 1..Len(s) : ~IsSpace(s[k])}
    IN  IF keep = {} THEN <<>> ELSE SubSeq(s, Min(keep), Max(keep))

RECURSIVE DropSpaces(_)
DropSpaces(s) == IF s # <<>> /\ IsSpace(Head(s)) THEN DropSpaces(Tail(s)) ELSE s

RECURSIVE CollapseSpaces(_)
\* re.sub(r'\s+', ' ', s)
CollapseSpaces(s) ==
    IF s = <<>> THEN <<>>
    ELSE IF IsSpace(Head(s)) THEN <<" ">> \o CollapseSpaces(DropSpaces(s))
    ELSE <<Head(s)>> \o CollapseSpaces(Tail(s))

\* s.replace('&nbsp;', ' ')
ReplaceNbsp(s) == [k \in 1..Len(s) |-> IF s[k] = NBSP THEN " " ELSE s[k]]

\* clean_text on a str
CleanStr(s) == IF s = <<>> THEN <<>> ELSE ReplaceNbsp(CollapseSpaces(Strip(s)))

\* clean_text on an optional str (None or a str); the result is a str
clean_text(text) == IF IsNone(text) THEN <<>> ELSE CleanStr(The(text))

----------------------------------------------------------------------------
(* The parsed document.                                                    *)
(*                                                                         *)
(* A document is the sequence of its li.wpProQuiz_listItem nodes.  A quiz  *)
(* item is a record                                                        *)
(*   question_text : None, or Some(get_text() of div.wpProQuiz_question_text)*)
(*   question_list : None, or Some(data-type of ul.wpProQuiz_questionList), *)
(*                   "" when the attribute is absent                       *)
(*   answer_items  : the li.wpProQuiz_questionListItem nodes in document    *)
(*                   order, each [correct, data_pos, label]: whether the   *)
(*                   class wpProQuiz_answerCorrect is present, the data-pos *)
(*                   attribute (None, or Some(n) for the integer literal   *)
(*                   n), and the label (None, or Some([input, text]):      *)
(*                   whether it holds an input element, and its text).     *)
(*                   int(pos) is total on these values; it raises on any   *)
(*                   other attribute text, which no document here holds.   *)
(*   response      : None, or Some(paragraphs of div.wpProQuiz_response),  *)
(*                   each [text, images, links]                            *)
(***************************************************************************)

\* explanation_div.get_text(): the text of the paragraphs, concatenated
ResponseText(paragraphs) == Concat([k \in 1..Len(paragraphs) |-> paragraphs[k].text])

----------------------------------------------------------------------------
(* extract_links_and_images *)

ImageWord == <<"I","m","a","g","e">>

\* f"{link_text}: {url}" if link_text else url
LinkLine(link) ==
    LET link_text == CleanStr(link.text)
    IN  IF link_text # <<>> THEN link_text \o <<":", " ">> \o The(link.href)
        ELSE The(link.href)

\* f"Image{' (' + alt + ')' if alt else ''}: {src}"
ImageLine(img) ==
    LET alt == IF IsNone(img.alt) THEN <<>> ELSE The(img.alt)
    IN  ImageWord
        \o (IF alt # <<>> THEN <<" ", "(">> \o alt \o <<")">> ELSE <<>>)
        \o <<":", " ">> \o The(img.src)

RECURSIVE LinkLines(_)
\* find_all('a', href=True), keeping those with a non-empty url
LinkLines(links) ==
    IF links = <<>> THEN <<>>
    ELSE (IF ~IsNone(Head(links).href) /\ The(Head(links).href) # <<>>
          THEN <<LinkLine(Head(links))>> ELSE <<>>) \o LinkLines(Tail(links))

RECURSIVE ImageLines(_)
\* find_all('img', src=True), keeping those with a non-empty src
ImageLines(images) ==
    IF images = <<>> THEN <<>>
    ELSE (IF ~IsNone(Head(images).src) /\ The(Head(images).src) # <<>>
          THEN <<ImageLine(Head(images))>> ELSE <<>>) \o ImageLines(Tail(images))

extract_links_and_images(p) == [links |-> LinkLines(p.links), images |-> ImageLines(p.images)]

----------------------------------------------------------------------------
(* determine_correct_answers: the three regular expressions, searched with *)
(* re.IGNORECASE                                                           *)

\* "Correct answer", compared case-insensitively
PhraseStem == <<"c","o","r","r","e","c","t"," ","a","n","s","w","e","r">>
AndWord == <<"a","n","d">>
NumPatterns == 3

\* [A-Z] under re.IGNORECASE
IsLetter(c) == IsUpper(c) \/ IsLower(c)

RECURSIVE SkipSpaces(_, _)
\* \s* from position i: the first position at or after i that holds no whitespace
SkipSpaces(t, i) == IF i <= Len(t) /\ IsSpace(t[i]) THEN SkipSpaces(t, i + 1) ELSE i

\* the literal word w matches t at position i, case-insensitively
WordAt(t, i, w) ==
    /\ i + Len(w) - 1 <= Len(t)
    /\ \A k \in 1..Len(w) : ToLower(t[i + k - 1]) = w[k]

\* "Correct answers?:" at position i: the position after it, or 0
PhraseEnd(t, i) ==
    IF ~WordAt(t, i, PhraseStem) THEN 0
    ELSE LET j == i + Len(PhraseStem)
         IN  IF WordAt(t, j, <<"s", ":">>) THEN j + 2
             ELSE IF WordAt(t, j, <<":">>) THEN j + 1
             ELSE 0

\* one more repetition of the group's tail after position j - 1: the position
\* after it, or 0.  Pattern 1: \s*,\s*[A-Z]; 2: \s+and\s+[A-Z]; 3: \s*[A-Z]
OneMore(k, t, j) ==
    LET a == SkipSpaces(t, j)
    IN  IF k = 1 THEN
            IF a <= Len(t) /\ t[a] = ","
            THEN LET b == SkipSpaces(t, a + 1)
                 IN  IF b <= Len(t) /\ IsLetter(t[b]) THEN b + 1 ELSE 0
            ELSE 0
        ELSE IF k = 2 THEN
            IF a > j /\ WordAt(t, a, AndWord)
            THEN LET b == SkipSpaces(t, a + Len(AndWord))
                 IN  IF b > a + Len(AndWord) /\ b <= Len(t) /\ IsLetter(t[b])
                     THEN b + 1 ELSE 0
            ELSE 0
        ELSE
            IF a <= Len(t) /\ IsLetter(t[a]) THEN a + 1 ELSE 0

RECURSIVE GroupEnd(_, _, _)
\* the greedy ( ... )* : the position after the last repetition
GroupEnd(k, t, j) == IF OneMore(k, t, j) = 0 THEN j ELSE GroupEnd(k, t, OneMore(k, t, j))

\* the pattern matches t at position i: Some(group 1), or None
MatchAt(k, t, i) ==
    LET e == PhraseEnd(t, i)
        s == SkipSpaces(t, e)
    IN  IF e # 0 /\ s <= Len(t) /\ IsLetter(t[s])
        THEN Some(SubSeq(t, s, GroupEnd(k, t, s + 1) - 1))
        ELSE None

\* re.search(pattern, t, re.IGNORECASE): group 1 of the leftmost match, or None
Search(k, t) ==
    LET hits == {i \in 1..Len(t) : ~IsNone(MatchAt(k, t, i))}
    IN  IF hits = {} THEN None ELSE MatchAt(k, t, Min(hits))

RECURSIVE FindLetters(_)
\* re.findall(r'[A-Z]', answers_str.upper())
FindLetters(s) ==
    IF s = <<>> THEN <<>>
    ELSE (IF IsUpper(ToUpper(Head(s))) THEN <<ToUpper(Head(s))>> ELSE <<>>)
         \o FindLetters(Tail(s))

InSeq(x, s) == \E k \in 1..Len(s) : s[k] = x

\* if number not in correct_answers: correct_answers.append(number)
AppendNew(correct_answers, number) ==
    IF InSeq(number, correct_answers) THEN correct_answers
    ELSE correct_answers \o <<number>>

RECURSIVE AppendLetters(_, _)
\* for letter in letters: append its number unless already present
AppendLetters(correct_answers, letters) ==
    IF letters = <<>> THEN correct_answers
    ELSE AppendLetters(AppendNew(correct_answers, LetterNumber(Head(letters))),
                       Tail(letters))

RECURSIVE TryPatterns(_, _, _)
\* for pattern in patterns: ... if correct_answers: break
TryPatterns(k, t, correct_answers) ==
    IF k > NumPatterns THEN correct_answers
    ELSE LET match == Search(k, t)
         IN  IF IsNone(match) THEN TryPatterns(k + 1, t, correct_answers)
             ELSE LET found == AppendLetters(correct_answers, FindLetters(The(match)))
                  IN  IF found # <<>> THEN found ELSE TryPatterns(k + 1, t, found)

\* the multi-select branch before its "at least 2" step
LettersFromExplanation(question_element) ==
    IF IsNone(question_element.response) THEN <<>>
    ELSE TryPatterns(1, ResponseText(The(question_element.response)), <<>>)

RECURSIVE AllMarked(_)
\* (variant: the loop without its break)
AllMarked(answer_items) ==
    IF answer_items = <<>> THEN <<>>
    ELSE (IF Head(answer_items).correct /\ ~IsNone(Head(answer_items).data_pos)
          THEN <<The(Head(answer_items).data_pos) + 1>> ELSE <<>>)
         \o AllMarked(Tail(answer_items))

RECURSIVE FirstMarked(_)
\* the multiple-choice branch: the first item with the class and a data-pos
FirstMarked(answer_items) ==
    IF answer_items = <<>> THEN <<>>
    ELSE IF Head(answer_items).correct /\ ~IsNone(Head(answer_items).data_pos)
         THEN <<The(Head(answer_items).data_pos) + 1>>
         ELSE FirstMarked(Tail(answer_items))

\* "Ensure multi-select has at least 2 correct answers"
AtLeastTwo(correct_answers) ==
    IF Len(correct_answers) = 0 THEN <<1, 2>>
    ELSE IF Len(correct_answers) = 1
         THEN (IF correct_answers[1] = 1 THEN correct_answers \o <<2>>
               ELSE correct_answers \o <<1>>)
    ELSE correct_answers

determine_correct_answers(question_element, question_type) ==
    IF question_type = "multiple-choice" THEN FirstMarked(question_element.answer_items)
    ELSE IF question_type = "multi-select"
         THEN AtLeastTwo(LettersFromExplanation(question_element))
    ELSE <<>>

----------------------------------------------------------------------------
(* extract_question_data *)

\* the question type from the data-type attribute of the answer list
QuestionTypeOf(question_element) ==
    IF IsNone(question_element.question_list) THEN ""
    ELSE IF The(question_element.question_list) = "single" THEN "multiple-choice"
    ELSE IF The(question_element.question_list) = "multiple" THEN "multi-select"
    ELSE ""

RECURSIVE ExtractAnswers(_)
\* one answer per answer item that has a label, in document order
ExtractAnswers(answer_items) ==
    IF answer_items = <<>> THEN <<>>
    ELSE (IF ~IsNone(Head(answer_items).label)
          THEN <<CleanStr(The(Head(answer_items).label).text)>> ELSE <<>>)
         \o ExtractAnswers(Tail(answer_items))

\* input_elem.decompose() on every label that holds an input
DecomposeInputs(question_element) ==
    [question_element EXCEPT !.answer_items =
        [k \in 1..Len(@) |->
            IF IsNone(@[k].label) THEN @[k]
            ELSE [@[k] EXCEPT !.label = Some([The(@) EXCEPT !.input = FALSE])]]]

\* (variant: the default for an empty list is dropped)
ValidateNoDefault(correct_answers, question_type) ==
    IF correct_answers = <<>> THEN <<>>
    ELSE IF question_type = "multi-select" /\ Len(correct_answers) < 2
         THEN (IF correct_answers[1] = 1 THEN correct_answers \o <<2>>
               ELSE correct_answers \o <<1>>)
    ELSE correct_answers

\* "Validate correct answers based on question type"
Validate(correct_answers, question_type) ==
    IF correct_answers = <<>>
    THEN (IF question_type = "multi-select" THEN <<1, 2>> ELSE <<1>>)
    ELSE IF question_type = "multi-select" /\ Len(correct_answers) < 2
         THEN (IF correct_answers[1] = 1 THEN correct_answers \o <<2>>
               ELSE correct_answers \o <<1>>)
    ELSE correct_answers

\* the fragments of one paragraph: its text, its images, its links
ParagraphPartsLinksFirst(p) ==
    LET found == extract_links_and_images(p)
        text_content == CleanStr(p.text)
    IN  (IF text_content # <<>> THEN <<text_content>> ELSE <<>>)
        \o found.links \o found.images

ParagraphParts(p) ==
    LET found == extract_links_and_images(p)
        text_content == CleanStr(p.text)
    IN  (IF text_content # <<>> THEN <<text_content>> ELSE <<>>)
        \o found.images \o found.links

OverallExplanation(question_element) ==
    IF IsNone(question_element.response) THEN <<>>
    ELSE LET ps == The(question_element.response)
         IN  Join(<<" ", "|", " ">>,
                  Concat([k \in 1..Len(ps) |-> ParagraphParts(ps[k])]))

\* (variant: the dictionary carries a was-defaulted flag)
extract_question_data_flagged(question_element) ==
    LET question_type == QuestionTypeOf(question_element)
        answers == ExtractAnswers(question_element.answer_items)
        after == DecomposeInputs(question_element)
        detected == determine_correct_answers(after, question_type)
    IN  [question |-> clean_text(question_element.question_text),
         question_type |-> question_type,
         answers |-> answers,
         explanations |-> [k \in 1..Len(answers) |-> <<>>],
         correct_answers |-> Validate(detected, question_type),
         was_defaulted |-> Validate(detected, question_type) # detected,
         overall_explanation |-> OverallExplanation(after),
         domain |-> <<>>]

\* the data dictionary extract_question_data returns
extract_question_data(question_element) ==
    LET question_type == QuestionTypeOf(question_element)
        answers == ExtractAnswers(question_element.answer_items)
        after == DecomposeInputs(question_element)
    IN  [question |-> clean_text(question_element.question_text),
         question_type |-> question_type,
         answers |-> answers,
         explanations |-> [k \in 1..Len(answers) |-> <<>>],
         correct_answers |->
             Validate(determine_correct_answers(after, question_type), question_type),
         overall_explanation |-> OverallExplanation(after),
         domain |-> <<>>]

----------------------------------------------------------------------------
(* The rows of the output file *)

\* (variant: the slots are filled from the second answer on)
SlotShifted(values, i) == IF i + 1 <= Len(values) THEN values[i + 1] ELSE <<>>

\* the value of slot i (1-based) of a six-slot column
Slot(values, i) == IF i <= Len(values) THEN values[i] ELSE <<>>

\* the row convert_html_to_csv writes for one extracted question
ConvRow(question_data) ==
    [Question |-> question_data.question,
     Question_Type |-> question_data.question_type,
     Answer_Option |-> [i \in 1..MaxSlots |-> Slot(question_data.answers, i)],
     Explanation |->
         [i \in 1..MaxSlots |->
             IF i <= Len(question_data.answers)
             THEN Slot(question_data.explanations, i) ELSE <<>>],
     Correct_Answers |-> IF question_data.correct_answers # <<>>
                         THEN question_data.correct_answers ELSE <<1>>,
     Overall_Explanation |-> question_data.overall_explanation,
     Domain |-> question_data.domain]

----------------------------------------------------------------------------
(* UdemyCSVGenerator.                                                      *)
(*                                                                         *)
(* A stored Question is a record [question_text, question_type,            *)
(* overall_explanation, domain, answers]: domain is None or Some(name),    *)
(* answers is the set of its Answer rows [order, answer_text, is_correct,  *)
(* explanation]; (question, order) is unique, order is in 1..7.            *)
(***************************************************************************)

\* question.answers.all().order_by('order')
OrderByOrder(answers) ==
    [i \in 1..Cardinality(answers) |->
        CHOOSE a \in answers : Cardinality({b \in answers : b.order < a.order}) = i - 1]

\* type_mapping.get(question_type, 'multi-select')
get_question_type_display(question_type) ==
    IF question_type = "multiple_choice" THEN "multiple-choice"
    ELSE IF question_type = "multiple_select" THEN "multi-select"
    ELSE "multi-select"

RECURSIVE CorrectFrom(_, _)
\* for i, answer in enumerate(answers): if answer.is_correct: append(str(i + 1))
CorrectFrom(answers, i) ==
    IF i > Len(answers) THEN <<>>
    ELSE (IF answers[i].is_correct THEN <<i>> ELSE <<>>) \o CorrectFrom(answers, i + 1)

\* the row add_question appends for a stored question
GenRow(q) ==
    LET answers == OrderByOrder(q.answers)
    IN  [Question |-> q.question_text,
         Question_Type |-> get_question_type_display(q.question_type),
         Answer_Option |->
             [i \in 1..MaxSlots |->
                 IF i <= Len(answers) THEN answers[i].answer_text ELSE <<>>],
         Explanation |->
             [i \in 1..MaxSlots |->
                 IF i <= Len(answers) THEN answers[i].explanation ELSE <<>>],
         Correct_Answers |-> CorrectFrom(answers, 1),
         Overall_Explanation |-> q.overall_explanation,
         Domain |-> IF IsNone(q.domain) THEN <<>> ELSE The(q.domain)]

----------------------------------------------------------------------------
(* The documents and stored questions the specifications start from *)

Unary(n) == [k \in 1..n |-> "x"]

QText == <<" ", "Q", "?", "\n">>
RText == <<"R", " ", " ", "?">>

NoResponse == None
Paragraph(t) == [text |-> t, images |-> <<>>, links |-> <<>>]

\* Marker family: every shape of up to MaxAnswerItems answer items
AnswerItemSet ==
    [correct : BOOLEAN,
     data_pos : {None} \cup {Some(n) : n \in 0..MaxPos},
     label : {None, Some([input |-> TRUE, text |-> <<"a", " ">>])}]

ListMarkers == {None, Some(""), Some("single"), Some("multiple"), Some("sort_answer")}

MarkerItems ==
    [question_text : {Some(QText)},
     question_list : ListMarkers,
     answer_items : SeqsUpTo(AnswerItemSet, MaxAnswerItems),
     response : {NoResponse}]

\* Explanation family: "Correct answers:" phrases, letter lists, trailing text
CorrectAnswersColon ==
    <<"C","o","r","r","e","c","t"," ","a","n","s","w","e","r","s",":">>
CorrectAnswerLower ==
    <<"c","o","r","r","e","c","t"," ","a","n","s","w","e","r",":">>

Phrases == {CorrectAnswersColon, CorrectAnswerLower}
Leads == {<<>>, <<"S","e","e",".","\n">>}
Gaps == {<<>>, <<" ">>}

\* comma-separated lists of two or more distinct letters, with their positions
CommaLists ==
    {[text |-> <<"A", ",", " ", "C">>, positions |-> <<1, 3>>],
     [text |-> <<"C", ",", "A">>, positions |-> <<3, 1>>],
     [text |-> <<"B", " ", ",", " ", "D", ",", "A">>, positions |-> <<2, 4, 1>>]}
\* the same two letters joined by "and", or by a space
AndLists == {[text |-> <<"A", " ", "a", "n", "d", " ", "C">>, positions |-> <<1, 3>>]}
SpaceLists == {[text |-> <<"A", " ", "C">>, positions |-> <<1, 3>>]}
\* other things after the phrase
OtherLists ==
    {[text |-> <<"B">>, positions |-> <<2>>],
     [text |-> <<"A">>, positions |-> <<1>>],
     [text |-> <<"A", ",", "A">>, positions |-> <<1>>],
     [text |-> <<"1", ",", "3">>, positions |-> <<>>]}
LetterLists == CommaLists \cup AndLists \cup SpaceLists \cup OtherLists

Trails ==
    {<<>>, <<".">>, <<" ", "a", "r", "e", " ", "o", "k">>,
     <<",", " ", "b", "e", "c", "a", "u", "s", "e">>, <<"\n", "N", "o">>}

ExplanationTexts ==
    {Concat(<<lead, phrase, gap, list.text, trail>>) :
        lead \in Leads, phrase \in Phrases, gap \in Gaps,
        list \in LetterLists, trail \in Trails}
    \cup {<<>>, <<"A", ",", " ", "C">>}

ThreeAnswers ==
    [k \in 1..3 |-> [correct |-> k = 2, data_pos |-> Some(k - 1),
                     label |-> Some([input |-> TRUE, text |-> Unary(k)])]]

ExplanationItems ==
    [question_text : {Some(QText)},
     question_list : {Some("single"), Some("multiple")},
     answer_items : {ThreeAnswers},
     response : {Some(<<Paragraph(t)>>) : t \in ExplanationTexts}]

\* Many-answers family: 0..MaxAnswers labelled answers with distinct texts
ManyAnswers(n) ==
    [k \in 1..n |-> [correct |-> k = 1, data_pos |-> Some(k - 1),
                     label |-> Some([input |-> FALSE, text |-> Unary(k)])]]

ManyAnswersItems ==
    [question_text : {Some(RText)},
     question_list : {Some("single"), Some("multiple")},
     answer_items : {ManyAnswers(n) : n \in 0..MaxAnswers},
     response : {NoResponse}]

\* Small items, for documents of several quiz items
RichParagraphs ==
    <<[text |-> <<"s", "e", "e", " ", " ", "d", "o", "c", "n">>,
       images |-> <<[src |-> Some(<<"i">>), alt |-> Some(<<"p">>)],
                    [src |-> Some(<<"j">>), alt |-> None]>>,
       links |-> <<[href |-> Some(<<"u">>), text |-> <<" ", "d", "o", "c">>],
                   [href |-> Some(<<"v">>), text |-> <<>>],
                   [href |-> None, text |-> <<"n">>]>>],
      Paragraph(<<" ">>)>>

QuestionTexts ==
    {None, Some(<<>>), Some(<<" ", "\n">>), Some(<<NBSP>>), Some(QText), Some(RText)}

SmallItems ==
    [question_text : QuestionTexts,
     question_list : {None},
     answer_items : {<<>>},
     response : {NoResponse}]
    \cup
    [question_text : QuestionTexts,
     question_list : {Some("single")},
     answer_items : {SubSeq(ThreeAnswers, 1, 2)},
     response : {Some(RichParagraphs)}]

Documents ==
    {<<item>> : item \in MarkerItems \cup ExplanationItems \cup ManyAnswersItems}
    \cup SeqsUpTo(SmallItems, MaxItems)

\* Stored questions: any set of orders, any subset of them correct
StoredAnswers(orders, right, rich) ==
    {[order |-> o, answer_text |-> Unary(o), is_correct |-> o \in right,
      explanation |-> IF rich THEN <<"e">> \o Unary(o) ELSE <<>>] : o \in orders}

StoredQuestions ==
    {[question_text |-> QText,
      question_type |-> type,
      overall_explanation |-> IF rich THEN <<"w", "h", "y">> ELSE <<>>,
      domain |-> IF rich THEN Some(<<"D", "1">>) ELSE None,
      answers |-> StoredAnswers(orders, right \cap orders, rich)] :
        type \in {"multiple_choice", "multiple_select", "other"},
        rich \in BOOLEAN,
        orders \in SUBSET (1..MaxOrder),
        right \in SUBSET (1..MaxOrder)}

----------------------------------------------------------------------------
(* The components at rest *)

CleanIdle == raw = None /\ once = None /\ twice = None
ConvIdle  == /\ html_content = None /\ soup = <<>> /\ pc = "idle" /\ idx = 0
             /\ questions_data = <<>> /\ csv_rows = <<>>
GenIdle   == question = None /\ gen_rows = <<>> /\ added = <<>>
SugIdle   == store = None /\ call = None /\ result = None

----------------------------------------------------------------------------
(* Specification of clean_text: one call, and a second call on its result *)

CleanAlphabet == {"a", " ", "\n", NBSP}
CleanInputs == {None} \cup {Some(s) : s \in SeqsUpTo(CleanAlphabet, MaxLen)}

InitClean == /\ raw \in CleanInputs
             /\ once = None /\ twice = None
             /\ ConvIdle /\ GenIdle /\ SugIdle

CallClean == /\ IsNone(once)
             /\ once' = Some(clean_text(raw))
             /\ UNCHANGED <<raw, twice, convVars, genVars, sugVars>>

CallCleanAgain == /\ ~IsNone(once) /\ IsNone(twice)
                  /\ twice' = Some(clean_text(once))
                  /\ UNCHANGED <<raw, once, convVars, genVars, sugVars>>

NextClean == CallClean \/ CallCleanAgain

SpecClean == InitClean /\ [][NextClean]_vars

----------------------------------------------------------------------------
(* Specification of convert_html_to_csv *)

InitConvert ==
    /\ html_content \in {None} \cup {Some(d) : d \in Documents}
    /\ soup = <<>> /\ pc = "start" /\ idx = 0
    /\ questions_data = <<>> /\ csv_rows = <<>>

\* the input file does not exist: nothing is written
InputNotFound ==
    /\ pc = "start" /\ IsNone(html_content)
    /\ pc' = "returned"
    /\ UNCHANGED <<html_content, soup, idx, questions_data, csv_rows, cleanVars, genVars, sugVars>>

\* BeautifulSoup(html_content) and find_all of the quiz items
ParseHtml ==
    /\ pc = "start" /\ ~IsNone(html_content)
    /\ soup' = The(html_content)
    /\ pc' = "extract"
    /\ UNCHANGED <<html_content, idx, questions_data, csv_rows, cleanVars, genVars, sugVars>>

\* (variant: every item is kept)
KeepAlways(question_data) == TRUE

\* if question_data['question']: "Only add if we found a question"
KeepQuestion(question_data) == question_data.question # <<>>

\* one iteration of the extraction loop
ExtractItem ==
    /\ pc = "extract" /\ idx < Len(soup)
    /\ LET question_data == extract_question_data(soup[idx + 1])
       IN  questions_data' = IF KeepQuestion(question_data)
                             THEN Append(questions_data, question_data)
                             ELSE questions_data
    /\ soup' = [soup EXCEPT ![idx + 1] = DecomposeInputs(@)]
    /\ idx' = idx + 1
    /\ UNCHANGED <<html_content, pc, csv_rows, cleanVars, genVars, sugVars>>

\* the header and one row per extracted question
WriteCsv ==
    /\ pc = "extract" /\ idx = Len(soup)
    /\ csv_rows' = [k \in 1..Len(questions_data) |-> ConvRow(questions_data[k])]
    /\ pc' = "done"
    /\ UNCHANGED <<html_content, soup, idx, questions_data, cleanVars, genVars, sugVars>>

NextConvert == InputNotFound \/ ParseHtml \/ ExtractItem \/ WriteCsv

Init == InitConvert /\ CleanIdle /\ GenIdle /\ SugIdle

Next == NextConvert

Spec == Init /\ [][Next]_vars

----------------------------------------------------------------------------
(* Specification of UdemyCSVGenerator *)

InitGenerator ==
    /\ question \in {Some(q) : q \in StoredQuestions}
    /\ gen_rows = <<>> /\ added = <<>>

\* add_question(question)
AddQuestion ==
    /\ ~IsNone(question) /\ Len(gen_rows) < MaxGenRows
    /\ gen_rows' = Append(gen_rows, GenRow(The(question)))
    /\ added' = Append(added, The(question))
    /\ call' = Some([op |-> "add_question"]) /\ result' = None
    /\ UNCHANGED <<question, store, cleanVars, convVars>>

\* clear()
Clear ==
    /\ ~IsNone(question) /\ gen_rows # <<>>
    /\ gen_rows' = <<>> /\ added' = <<>>
    /\ call' = Some([op |-> "clear"]) /\ result' = None
    /\ UNCHANGED <<question, store, cleanVars, convVars>>

NextGenerator == AddQuestion \/ Clear

InitGen == InitGenerator /\ CleanIdle /\ ConvIdle /\ SugIdle

SpecGen == InitGen /\ [][NextGenerator]_vars

----------------------------------------------------------------------------
(* Both exporters: a run of the converter, or a use of the generator *)

InitExport == Init \/ InitGen

NextExport == NextConvert \/ NextGenerator

SpecExport == InitExport /\ [][NextExport]_vars

----------------------------------------------------------------------------
(* UdemyCSVGenerator in use: several questions, and what it gives out      *)
(*                                                                         *)
(* A CSV text is carried as the list of its records, a record being the    *)
(* list of its fields; the quoting of the csv module is not modelled.      *)

HEADERS ==
    <<"Question", "Question Type",
      "Answer Option 1", "Explanation 1", "Answer Option 2", "Explanation 2",
      "Answer Option 3", "Explanation 3", "Answer Option 4", "Explanation 4",
      "Answer Option 5", "Explanation 5", "Answer Option 6", "Explanation 6",
      "Correct Answers", "Overall Explanation", "Domain">>

\* the record csv.DictWriter writes for a row: its values in HEADERS order
RowFields(row) ==
    <<row.Question, row.Question_Type,
      row.Answer_Option[1], row.Explanation[1], row.Answer_Option[2], row.Explanation[2],
      row.Answer_Option[3], row.Explanation[3], row.Answer_Option[4], row.Explanation[4],
      row.Answer_Option[5], row.Explanation[5], row.Answer_Option[6], row.Explanation[6],
      row.Correct_Answers, row.Overall_Explanation, row.Domain>>

\* writer.writerows(self.questions_data)
WriteRows(rows) == [k \in 1..Len(rows) |-> RowFields(rows[k])]

RECURSIVE add_questions(_, _)
\* for question in questions: self.add_question(question)
add_questions(rows, questions) ==
    IF questions = <<>> THEN rows
    ELSE add_questions(Append(rows, GenRow(Head(questions))), Tail(questions))

\* writer.writeheader(); writer.writerows(self.questions_data); output.getvalue()
generate_csv_content(rows) == <<HEADERS>> \o WriteRows(rows)

\* (variant: the file gets the rows without the header)
save_to_file_rows_only(rows) == WriteRows(rows)

\* what save_to_file leaves in the file at filepath
save_to_file(rows) ==
    LET header == <<HEADERS>>
    IN  header \o WriteRows(rows)

\* sum(1 for i in range(1, 7) if row[f'Answer Option {i}'])
AnswerCount(row) == Cardinality({i \in 1..MaxSlots : row.Answer_Option[i] # <<>>})

RECURSIVE TotalAnswers(_)
TotalAnswers(rows) ==
    IF rows = <<>> THEN 0 ELSE AnswerCount(Head(rows)) + TotalAnswers(Tail(rows))

\* round(num / den, 2) in hundredths: the nearest hundredth, the even one of
\* the two when the value is halfway
RoundHundredths(num, den) ==
    LET q == (100 * num) \div den
        r == (100 * num) % den
    IN  IF 2 * r < den THEN q
        ELSE IF 2 * r > den THEN q + 1
        ELSE IF q % 2 = 0 THEN q ELSE q + 1

\* get_stats(): the average is in hundredths
get_stats(rows) ==
    IF rows = <<>>
    THEN [total_questions |-> 0, question_types |-> <<>>, domains |-> <<>>,
          avg_answers_per_question |-> 0]
    ELSE LET types == {rows[k].Question_Type : k \in 1..Len(rows)}
             domains == {rows[k].Domain : k \in 1..Len(rows)}
         IN  [total_questions |-> Len(rows),
              question_types |->
                  [t \in types |->
                      Cardinality({k \in 1..Len(rows) : rows[k].Question_Type = t})],
              domains |->
                  [d \in domains |->
                      Cardinality({k \in 1..Len(rows) : rows[k].Domain = d})],
              total_answers |-> TotalAnswers(rows),
              avg_answers_per_question |-> RoundHundredths(TotalAnswers(rows), Len(rows))]

\* a few stored questions that differ in every column
FewQuestions ==
    {[question_text |-> <<"A", "?">>, question_type |-> "multiple_choice",
      overall_explanation |-> <<>>, domain |-> None,
      answers |-> StoredAnswers({1, 2, 3}, {2}, FALSE)],
     [question_text |-> <<"B", ",", "\n">>, question_type |-> "multiple_select",
      overall_explanation |-> <<"w", "h", "y">>, domain |-> Some(<<"D", "1">>),
      answers |-> StoredAnswers({1, 2, 4, 7}, {1, 7}, TRUE)],
     [question_text |-> <<"C">>, question_type |-> "multiple_select",
      overall_explanation |-> <<>>, domain |-> Some(<<"D", "1">>),
      answers |-> StoredAnswers(1..MaxOrder, {3}, TRUE)]}

InitUse ==
    /\ question \in {Some(q) : q \in FewQuestions}
    /\ gen_rows = <<>> /\ added = <<>>
    /\ store = None /\ call = None /\ result = None
    /\ CleanIdle /\ ConvIdle

\* add_questions(questions)
AddQuestions ==
    \E questions \in SeqsUpTo(FewQuestions, MaxGenRows) :
        /\ Len(gen_rows) + Len(questions) <= MaxGenRows
        /\ gen_rows' = add_questions(gen_rows, questions)
        /\ added' = added \o questions
        /\ call' = Some([op |-> "add_questions", questions |-> questions])
        /\ result' = None
        /\ UNCHANGED <<question, store, cleanVars, convVars>>

\* generate_csv_content()
GenerateCsvContent ==
    /\ call' = Some([op |-> "generate_csv_content"])
    /\ result' = Some(generate_csv_content(gen_rows))
    /\ UNCHANGED <<genVars, store, cleanVars, convVars>>

\* save_to_file(filepath)
SaveToFile ==
    /\ call' = Some([op |-> "save_to_file"])
    /\ result' = Some(save_to_file(gen_rows))
    /\ UNCHANGED <<genVars, store, cleanVars, convVars>>

\* get_stats()
GetStats ==
    /\ call' = Some([op |-> "get_stats"])
    /\ result' = Some(get_stats(gen_rows))
    /\ UNCHANGED <<genVars, store, cleanVars, convVars>>

NextUse ==
    \/ AddQuestion \/ AddQuestions \/ Clear
    \/ GenerateCsvContent \/ SaveToFile \/ GetStats

SpecUse == InitUse /\ [][NextUse]_vars

----------------------------------------------------------------------------
(* DomainSuggester (tests_app/utils/domain_suggester.py)                   *)
(*                                                                         *)
(* Numbers.  Every keyword score is a multiple of 0.05; a score is carried *)
(* as its integer number of hundredths (22.9 is 2290), which is also what  *)
(* round(score, 2) reports.  A confidence is carried exactly, as a         *)
(* numerator over the denominator ConfDen(max_score); the reported         *)
(* round(confidence, 1) is carried in tenths (55.0 is 550).                *)
(* The code computes in binary floating point; the model computes the     *)
(* same expressions exactly.  The two can differ only where two values     *)
(* that are equal in exact arithmetic are compared (two equal scores in    *)
(* the sort, a confidence on a level threshold or halfway between two      *)
(* tenths): there the model follows the exact values, with the stable      *)
(* order of sorted() and the half-to-even rule of round().                 *)
(***************************************************************************)

WEIGHT_MULTIPLIERS == [high_weight |-> 3, medium_weight |-> 2, low_weight |-> 1]

Section1 == "Section 1: Designing highly scalable, available, and reliable cloud-native applications"
Section2 == "Section 2: Building and testing applications"
Section3 == "Section 3: Deploying applications"
Section4 == "Section 4: Integrating applications with Google Cloud services"

\* the words the question texts of the model are made of
Cloud == <<"c", "l", "o", "u", "d">>
Runtime == <<"r", "u", "n", "t", "i", "m", "e">>
PubSub == <<"p", "u", "b", "/", "s", "u", "b">>
Testing == <<"t", "e", "s", "t", "i", "n", "g">>

KwCloudRun == <<"c", "l", "o", "u", "d", " ", "r", "u", "n">>
KwCloudRunServices == <<"c", "l", "o", "u", "d", " ", "r", "u", "n", " ", "s", "e", "r", "v", "i", "c", "e", "s">>

\* The taxonomy, restricted to the keywords that can score on a text made of
\* the words above (a keyword all of whose words occur in them, or 60% of
\* whose words do); every other keyword scores 0 on every such text.  The
\* keywords of a list are in the order and with the repetitions of the file.
DOMAIN_KEYWORDS ==
    [exam_name \in {"google_cloud_developer"} |->
        <<[domain_name |-> Section1,
           high_weight |-> <<KwCloudRun, KwCloudRun, PubSub, KwCloudRun>>,
           medium_weight |-> <<>>,
           low_weight |-> <<Cloud>>],
          [domain_name |-> Section2,
           high_weight |-> <<>>,
           medium_weight |-> <<Testing>>,
           low_weight |-> <<>>],
          [domain_name |-> Section3,
           high_weight |-> <<KwCloudRun, KwCloudRunServices, PubSub, PubSub>>,
           medium_weight |-> <<>>,
           low_weight |-> <<Runtime>>],
          [domain_name |-> Section4,
           high_weight |-> <<PubSub>>,
           medium_weight |-> <<>>,
           low_weight |-> <<>>]>>]

\* DOMAIN_KEYWORDS.get(exam_name, {})
ExamKeywords(exam_name) ==
    IF exam_name \in DOMAIN DOMAIN_KEYWORDS THEN DOMAIN_KEYWORDS[exam_name] ELSE <<>>

(* _normalize_text *)

Digits == {"0", "1", "2", "3", "4", "5", "6", "7", "8", "9"}

\* \w
IsWordChar(c) == IsLetter(c) \/ c \in Digits \/ c = "_"

\* re.sub(r'[^\w\s\-\./]', ' ', text)
ReplaceSpecial(s) ==
    [k \in 1..Len(s) |->
        IF IsWordChar(s[k]) \/ IsSpace(s[k]) \/ s[k] \in {"-", ".", "/"}
        THEN s[k] ELSE " "]

normalize_text(text) ==
    Strip(CollapseSpaces(ReplaceSpecial([k \in 1..Len(text) |-> ToLower(text[k])])))

(* _score_keywords *)

\* keyword occurs in text at position i
OccursAt(text, keyword, i) ==
    /\ i + Len(keyword) - 1 <= Len(text)
    /\ \A j \in 1..Len(keyword) : text[i + j - 1] = keyword[j]

\* keyword in text
Contains(text, keyword) == \E i \in 1..Len(text) : OccursAt(text, keyword, i)

RECURSIVE CountFrom(_, _, _)
\* text.count(keyword): the non-overlapping occurrences, scanning from the left
CountFrom(text, keyword, i) ==
    IF i + Len(keyword) - 1 > Len(text) THEN 0
    ELSE IF OccursAt(text, keyword, i)
         THEN 1 + CountFrom(text, keyword, i + Len(keyword))
         ELSE CountFrom(text, keyword, i + 1)

RECURSIVE Split(_)
\* str.split()
Split(s) ==
    LET t == DropSpaces(s)
        ends == {k \in 1..Len(t) : IsSpace(t[k])}
        stop == IF ends = {} THEN Len(t) + 1 ELSE Min(ends)
    IN  IF t = <<>> THEN <<>>
        ELSE <<SubSeq(t, 1, stop - 1)>> \o Split(SubSeq(t, stop, Len(t)))

\* the score one keyword adds, in hundredths
KeywordScore(text, keyword) ==
    LET keyword_lower == [k \in 1..Len(keyword) |-> ToLower(keyword[k])]
        words == Split(keyword_lower)
    IN  IF Contains(text, keyword_lower)
        THEN LET occurrences == CountFrom(text, keyword_lower, 1)
                 phrase_bonus == IF Contains(keyword_lower, <<" ">>) THEN 15 ELSE 10
                 length_bonus == Len(words) * 3
             IN  occurrences * phrase_bonus * (10 + length_bonus)
        ELSE IF Len(words) > 1
             THEN LET matching_words ==
                          Cardinality({k \in 1..Len(words) : Contains(text, words[k])})
                  IN  IF matching_words * 10 >= Len(words) * 6
                      THEN matching_words * 30 ELSE 0
             ELSE 0

RECURSIVE score_keywords(_, _)
score_keywords(text, keywords) ==
    IF keywords = <<>> THEN 0
    ELSE KeywordScore(text, Head(keywords)) + score_keywords(text, Tail(keywords))

(* _analyze_question_text: the (domain name, score) pairs in taxonomy order *)

DomainScore(normalized_text, keyword_categories) ==
      score_keywords(normalized_text, keyword_categories.high_weight)
          * WEIGHT_MULTIPLIERS.high_weight
    + score_keywords(normalized_text, keyword_categories.medium_weight)
          * WEIGHT_MULTIPLIERS.medium_weight
    + score_keywords(normalized_text, keyword_categories.low_weight)
          * WEIGHT_MULTIPLIERS.low_weight

analyze_question_text(text, exam_keywords) ==
    LET normalized_text == normalize_text(text)
    IN  [k \in 1..Len(exam_keywords) |->
            [domain_name |-> exam_keywords[k].domain_name,
             score |-> DomainScore(normalized_text, exam_keywords[k])]]

(* _calculate_confidence, _get_confidence_level, round *)

\* the common denominator of the confidences computed against max_score
ConfDen(max_score) == IF max_score = 0 THEN 1 ELSE 4 * max_score

\* (variant: the result is not capped from below)
calculate_confidence_uncapped(score, max_score) ==
    IF max_score = 0 THEN 0
    ELSE LET den == ConfDen(max_score)
             relative_score == 400 * score
             confidence ==
                 IF relative_score >= 80 * den
                 THEN 85 * den + (relative_score - 80 * den) \div 2
                 ELSE IF relative_score >= 60 * den
                 THEN 70 * den + ((relative_score - 60 * den) * 3) \div 4
                 ELSE IF relative_score >= 40 * den
                 THEN 50 * den + (relative_score - 40 * den)
                 ELSE IF relative_score >= 20 * den
                 THEN 30 * den + (relative_score - 20 * den)
                 ELSE (relative_score * 3) \div 2
         IN  Min({95 * den, confidence})

\* the numerator of the confidence over ConfDen(max_score);
\* relative_score is (score / max_score) * 100 over the same denominator
calculate_confidence(score, max_score) ==
    IF max_score = 0 THEN 0
    ELSE LET den == ConfDen(max_score)
             relative_score == 400 * score
             confidence ==
                 IF relative_score >= 80 * den
                 THEN 85 * den + (relative_score - 80 * den) \div 2
                 ELSE IF relative_score >= 60 * den
                 THEN 70 * den + ((relative_score - 60 * den) * 3) \div 4
                 ELSE IF relative_score >= 40 * den
                 THEN 50 * den + (relative_score - 40 * den)
                 ELSE IF relative_score >= 20 * den
                 THEN 30 * den + (relative_score - 20 * den)
                 ELSE (relative_score * 3) \div 2
         IN  Min({95 * den, Max({5 * den, confidence})})

\* _get_confidence_level of the confidence confidence/den
get_confidence_level(confidence, den) ==
    IF confidence >= 75 * den THEN "High"
    ELSE IF confidence >= 55 * den THEN "Medium"
    ELSE IF confidence >= 35 * den THEN "Low"
    ELSE "Very Low"

\* round(confidence, 1) in tenths: the nearest tenth, the even one of the two
\* when the value is halfway
RoundTenths(confidence, den) ==
    LET q == (10 * confidence) \div den
        r == (10 * confidence) % den
    IN  IF 2 * r < den THEN q
        ELSE IF 2 * r > den THEN q + 1
        ELSE IF q % 2 = 0 THEN q ELSE q + 1

(* suggest_domains *)

\* (variant: the scores are sorted in ascending order)
PlaceOfAscending(domain_scores, j) ==
    1 + Cardinality({i \in 1..Len(domain_scores) :
                        \/ domain_scores[i].score < domain_scores[j].score
                        \/ domain_scores[i].score = domain_scores[j].score /\ i < j})

\* the place of entry j once sorted by descending score, equal scores
\* keeping their order
PlaceOf(domain_scores, j) ==
    1 + Cardinality({i \in 1..Len(domain_scores) :
                        \/ domain_scores[i].score > domain_scores[j].score
                        \/ domain_scores[i].score = domain_scores[j].score /\ i < j})

\* sorted(domain_scores.items(), key=lambda x: x[1], reverse=True)
SortedDomains(domain_scores) ==
    [k \in 1..Len(domain_scores) |->
        domain_scores[CHOOSE j \in 1..Len(domain_scores) : PlaceOf(domain_scores, j) = k]]

\* sorted_domains[:top_n], for top_n >= 0
TopSlice(sorted_domains, top_n) ==
    SubSeq(sorted_domains, 1, Min({top_n, Len(sorted_domains)}))

\* (variant: a domain that scored nothing is kept)
NonNegativeScore(score) == score >= 0

\* if score > 0: "Only include domains with positive scores"
PositiveScore(score) == score > 0

\* the suggestion the loop body appends for one (domain_name, score)
Suggestion(entry, max_score) ==
    LET confidence == calculate_confidence(entry.score, max_score)
        den == ConfDen(max_score)
    IN  [domain_name |-> entry.domain_name,
         score |-> entry.score,
         confidence |-> RoundTenths(confidence, den),
         confidence_level |-> get_confidence_level(confidence, den)]

RECURSIVE SuggestionList(_, _)
\* the list the loop over sorted_domains[:top_n] builds
SuggestionList(entries, max_score) ==
    IF entries = <<>> THEN <<>>
    ELSE (IF PositiveScore(Head(entries).score)
          THEN <<Suggestion(Head(entries), max_score)>> ELSE <<>>)
         \o SuggestionList(Tail(entries), max_score)

suggest_domains(question_text, exam_name, top_n) ==
    IF question_text = <<>> \/ exam_name = "" THEN <<>>
    ELSE LET exam_keywords == ExamKeywords(exam_name)
         IN  IF exam_keywords = <<>> THEN <<>>
             ELSE LET domain_scores == analyze_question_text(question_text, exam_keywords)
                      sorted_domains == SortedDomains(domain_scores)
                  IN  SuggestionList(TopSlice(sorted_domains, top_n),
                                     sorted_domains[1].score)

(* The collaborator store: Exam and Domain records (tests_app/models.py) *)

Section4Default == "Section 4: Integrating Google Cloud services"
Section5Default == "Section 5: Managing application performance monitoring"

\* the names create_default_domains gives the domains of a new
\* google_cloud_developer exam
DefaultDomainNames == <<Section1, Section2, Section3, Section4Default, Section5Default>>

\* (variant: an inactive exam is found too)
ExamGetAny(s, exam_id) ==
    LET found == {e \in s.exams : e.id = exam_id}
    IN  IF found = {} THEN None ELSE Some(CHOOSE e \in found : TRUE)

\* Exam.objects.get(id=exam_id, is_active=True); None for Exam.DoesNotExist
\* (id is the primary key: at most one record matches)
ExamGet(s, exam_id) ==
    LET found == {e \in s.exams : e.id = exam_id /\ e.is_active}
    IN  IF found = {} THEN None ELSE Some(CHOOSE e \in found : TRUE)

\* Domain.objects.get(exam=exam, name=name, is_active=True); None for
\* Domain.DoesNotExist (exam and name are unique together)
DomainGet(s, exam, name) ==
    LET found == {d \in s.domains : d.exam = exam.id /\ d.name = name /\ d.is_active}
    IN  IF found = {} THEN None ELSE Some(CHOOSE d \in found : TRUE)

\* "Enrich with actual domain objects": domain_id is the id of the Domain
\* record, None when there is none (domain_object is set alongside it)
Enrich(s, exam, suggestions) ==
    [k \in 1..Len(suggestions) |->
        LET domain == DomainGet(s, exam, suggestions[k].domain_name)
        IN  [domain_name |-> suggestions[k].domain_name,
             score |-> suggestions[k].score,
             confidence |-> suggestions[k].confidence,
             confidence_level |-> suggestions[k].confidence_level,
             domain_id |-> IF IsNone(domain) THEN None ELSE Some(The(domain).id)]]

get_domain_suggestions_for_exam(s, question_text, exam_id, top_n) ==
    LET exam == ExamGet(s, exam_id)
    IN  IF IsNone(exam) THEN <<>>
        ELSE Enrich(s, The(exam), suggest_domains(question_text, The(exam).name, top_n))

\* (variant: the threshold is not looked at)
BestOfAnyConfidence(suggestions, min_confidence) ==
    IF suggestions # <<>> /\ ~IsNone(suggestions[1].domain_id)
    THEN Some(suggestions[1]) ELSE None

\* the tail of get_best_domain_for_question; min_confidence is in tenths, a
\* domain id is a positive primary key and so truthy whenever it is not None
BestOf(suggestions, min_confidence) ==
    IF suggestions # <<>>
       /\ suggestions[1].confidence >= min_confidence
       /\ ~IsNone(suggestions[1].domain_id)
    THEN Some(suggestions[1]) ELSE None

\* Some(suggestion) or None
get_best_domain_for_question(s, question_text, exam_id, min_confidence) ==
    BestOf(get_domain_suggestions_for_exam(s, question_text, exam_id, 1), min_confidence)

----------------------------------------------------------------------------
(* Inputs of the suggester *)

MaxWords == 3        \* words of a question text of the word family
MaxTopN == 4         \* largest top_n

Vocabulary == {Cloud, Runtime, PubSub, Testing}

RECURSIVE WordTexts(_)
\* the texts of at most n words of the vocabulary, one space between words
WordTexts(n) ==
    IF n = 0 THEN {<<>>}
    ELSE LET shorter == WordTexts(n - 1)
         IN  shorter \cup Vocabulary
             \cup {t \o <<" ">> \o w : t \in shorter \ {<<>>}, w \in Vocabulary}

\* texts as typed: capitals, punctuation, blank text, a phrase repeated
Blank == <<" ", "\n">>
CloudRuntimeAsked == <<"C", "l", "o", "u", "d", " ", "R", "u", "n", "t", "i", "m", "e", "?">>
PubSubTyped == <<" ", "P", "u", "b", "/", "S", "u", "b", ",", " ", " ", "p", "u", "b", "/", "s", "u", "b", "!">>
RepeatedPhrase == <<"c", "l", "o", "u", "d", " ", "r", "u", "n", "t", "i", "m", "e", " ", "c", "l", "o", "u", "d", " ", "r", "u", "n", "t", "i", "m", "e", " ", "c", "l", "o", "u", "d", " ", "r", "u", "n", "t", "i", "m", "e", " ", "c", "l", "o", "u", "d", " ", "r", "u", "n", "t", "i", "m", "e", " ", "t", "e", "s", "t", "i", "n", "g">>

RawTexts == {Blank, CloudRuntimeAsked, PubSubTyped, RepeatedPhrase}

SuggesterTexts == WordTexts(MaxWords) \cup RawTexts

ExamNames == {"", "google_cloud_developer", "google_cloud_architect"}
ExamIds == {1, 2, 3}
DefaultTopN == 3
DefaultMinConfidence == 400
MinConfidences == {DefaultMinConfidence, 950, 960}

\* no exam at all
EmptyStore == [exams |-> {}, domains |-> {}]

\* exam 1 is a google_cloud_developer exam with the domains
\* create_default_domains gave it, some of them deactivated since; exam 2 is
\* an active google_cloud_architect exam with domains named after sections
FreshStore(active, inactive) ==
    [exams |-> {[id |-> 1, name |-> "google_cloud_developer", is_active |-> active],
                [id |-> 2, name |-> "google_cloud_architect", is_active |-> TRUE]},
     domains |->
        {[id |-> k, exam |-> 1, name |-> DefaultDomainNames[k],
          is_active |-> DefaultDomainNames[k] \notin inactive] :
            k \in 1..Len(DefaultDomainNames)}
        \cup {[id |-> 6, exam |-> 2, name |-> Section3, is_active |-> TRUE],
              [id |-> 7, exam |-> 2, name |-> Section4, is_active |-> TRUE]}]

Stores ==
    {EmptyStore, FreshStore(FALSE, {})}
    \cup {FreshStore(TRUE, inactive) : inactive \in {{}, {Section1}}}

----------------------------------------------------------------------------
(* Specification of the DomainSuggester: one call on a store *)

InitSuggest ==
    /\ store \in {Some(s) : s \in Stores}
    /\ call = None /\ result = None

\* suggester.suggest_domains(question_text, exam_name, top_n)
SuggestDomains ==
    /\ IsNone(call)
    /\ \E question_text \in SuggesterTexts, exam_name \in ExamNames, top_n \in 0..MaxTopN :
          /\ call' = Some([op |-> "suggest_domains", question_text |-> question_text,
                           exam_name |-> exam_name, top_n |-> top_n])
          /\ result' = Some(suggest_domains(question_text, exam_name, top_n))
    /\ UNCHANGED <<store, cleanVars, convVars, genVars>>

\* suggester.get_domain_suggestions_for_exam(question_text, exam_id, top_n)
GetDomainSuggestionsForExam ==
    /\ IsNone(call)
    /\ \E question_text \in SuggesterTexts, exam_id \in ExamIds, top_n \in 0..MaxTopN :
          /\ call' = Some([op |-> "get_domain_suggestions_for_exam",
                           question_text |-> question_text,
                           exam_id |-> exam_id, top_n |-> top_n])
          /\ result' = Some(get_domain_suggestions_for_exam(The(store), question_text,
                                                            exam_id, top_n))
    /\ UNCHANGED <<store, cleanVars, convVars, genVars>>

\* suggester.get_best_domain_for_question(question_text, exam_id, min_confidence)
GetBestDomainForQuestion ==
    /\ IsNone(call)
    /\ \E question_text \in SuggesterTexts, exam_id \in ExamIds,
          min_confidence \in MinConfidences :
          /\ call' = Some([op |-> "get_best_domain_for_question",
                           question_text |-> question_text,
                           exam_id |-> exam_id, min_confidence |-> min_confidence])
          /\ result' = Some(get_best_domain_for_question(The(store), question_text,
                                                         exam_id, min_confidence))
    /\ UNCHANGED <<store, cleanVars, convVars, genVars>>

NextSuggest == SuggestDomains \/ GetDomainSuggestionsForExam \/ GetBestDomainForQuestion

InitSug == InitSuggest /\ CleanIdle /\ ConvIdle /\ GenIdle

SpecSuggest == InitSug /\ [][NextSuggest]_vars

----------------------------------------------------------------------------
(* The web handlers: api_suggest_domains and api_create_question           *)
(* (tests_app/api_views copy.py) and handle_question_form                  *)
(* (tests_app/views.py).                                                    *)
(*                                                                         *)
(* The store holds the Question records too, each with its Answer records. *)
(* A handler is one step: it takes the store to the store it leaves and    *)
(* gives a response.  The requests of the family name no domain.           *)

MinAnswers == 3      \* "At least 3 answers are required"
MaxTestNumber == 50  \* MaxValueValidator(50) of Question.test_number

\* the values of the keys of a JSON object; an Atom is a string carried whole
Missing == [kind |-> "missing"]
Null == [kind |-> "null"]
Str(s) == [kind |-> "string", value |-> s]
Atom(a) == [kind |-> "atom", value |-> a]
Num(n) == [kind |-> "number", value |-> n]
List(l) == [kind |-> "list", value |-> l]

\* bool(data.get(key))
Truthy(v) ==
    \/ v.kind = "string" /\ v.value # <<>>
    \/ v.kind = "atom" /\ v.value # ""
    \/ v.kind = "number" /\ v.value # 0
    \/ v.kind = "list" /\ v.value # <<>>

JsonContent == "application/json"

\* JsonResponse({'success': ..., ...}, status=...)
JsonResponse(status, success, data) ==
    [status |-> status, success |-> success, data |-> data]

\* data.get('question_text', '').strip(): None when .strip() raises
\* AttributeError (the value is null or a number)
StrippedQuestionText(data) ==
    IF data.question_text.kind = "missing" THEN Some(<<>>)
    ELSE IF data.question_text.kind = "string" THEN Some(Strip(data.question_text.value))
    ELSE None

\* the JSON encoder raises TypeError on suggestion['domain_object'] when it
\* is a Domain record
Serializable(suggestions) ==
    \A k \in 1..Len(suggestions) : IsNone(suggestions[k].domain_id)

\* api_suggest_domains(request): the response
api_suggest_domains(s, request) ==
    IF request.content_type # JsonContent THEN JsonResponse(400, FALSE, None)
    ELSE IF request.body.kind = "invalid" THEN JsonResponse(400, FALSE, None)
    ELSE LET data == request.body
             question_text == StrippedQuestionText(data)
         IN  IF IsNone(question_text) THEN JsonResponse(500, FALSE, None)
             ELSE IF The(question_text) = <<>> THEN JsonResponse(400, FALSE, None)
             ELSE IF ~Truthy(data.exam_id) THEN JsonResponse(400, FALSE, None)
             ELSE LET suggestions ==
                          get_domain_suggestions_for_exam(s, The(question_text),
                                                          data.exam_id.value, DefaultTopN)
                  IN  IF Serializable(suggestions)
                      THEN JsonResponse(200, TRUE, Some(suggestions))
                      ELSE JsonResponse(500, FALSE, None)

\* Exam.objects.get(name=exam_name, is_active=True); the fallback on
\* display_name finds nothing for an exam name of the family
ExamByName(s, exam_name) ==
    LET found == {e \in s.exams : e.name = exam_name /\ e.is_active}
    IN  IF found = {} THEN None ELSE Some(CHOOSE e \in found : TRUE)

\* Question.full_clean(): no ValidationError
QuestionValid(q) ==
    /\ q.test_number \in 1..MaxTestNumber
    /\ q.question_type \in {"multiple_choice", "multiple_select"}
    /\ q.question_text # <<>>

\* the primary key the database gives the next Question
NextQuestionId(s) == 1 + Max({0} \cup {q.id : q \in s.questions})

\* the Answer records the loop of api_create_question creates: an answer
\* without text is skipped, the others keep their index as order
CreatedAnswers(answers_data) ==
    {[order |-> k, answer_text |-> answers_data[k].text,
      is_correct |-> answers_data[k].is_correct, explanation |-> <<>>] :
        k \in {j \in 1..Len(answers_data) : answers_data[j].text # <<>>}}

\* api_create_question(request): the store it leaves and the response
api_create_question(s, request) ==
    LET Reject(status) == [store |-> s, response |-> JsonResponse(status, FALSE, None)]
    IN  IF request.content_type # JsonContent THEN Reject(400)
        ELSE IF request.body.kind = "invalid" THEN Reject(400)
        ELSE
        LET data == request.body
            answers_data == IF data.answers.kind = "list" THEN data.answers.value ELSE <<>>
            correct_answers == {k \in 1..Len(answers_data) : answers_data[k].is_correct}
            question_type == IF data.question_type.kind = "missing"
                             THEN "multiple_select" ELSE data.question_type.value
        IN  IF \/ ~Truthy(data.exam) \/ ~Truthy(data.test_number)
               \/ ~Truthy(data.question_text) \/ ~Truthy(data.answers)
            THEN Reject(400)
            ELSE IF Len(answers_data) < MinAnswers THEN Reject(400)
            ELSE IF Len(answers_data) > MaxOrder THEN Reject(400)
            ELSE IF correct_answers = {} THEN Reject(400)
            ELSE IF question_type = "multiple_choice" /\ Cardinality(correct_answers) > 1
            THEN Reject(400)
            ELSE
            LET exam == ExamByName(s, data.exam.value)
            IN  IF IsNone(exam) THEN Reject(404)
                ELSE
                LET new_question ==
                        [id |-> NextQuestionId(s), exam |-> The(exam).id, domain |-> None,
                         test_number |-> data.test_number.value,
                         question_text |-> data.question_text.value,
                         question_type |-> question_type,
                         overall_explanation |-> <<>>, is_active |-> TRUE,
                         answers |-> CreatedAnswers(answers_data)]
                IN  IF ~QuestionValid(new_question) THEN Reject(400)
                    ELSE [store |-> [s EXCEPT !.questions = @ \cup {new_question}],
                          response |-> JsonResponse(201, TRUE, Some(new_question.id))]

RECURSIVE NonBlank(_)
\* the submitted answers whose stripped text is not empty, in form order
NonBlank(answers) ==
    IF answers = <<>> THEN <<>>
    ELSE (IF Strip(Head(answers).text) # <<>> THEN <<Head(answers)>> ELSE <<>>)
         \o NonBlank(Tail(answers))

\* the Answer records the loop of handle_question_form creates before the
\* first one that fails validation (order above 7)
FormAnswers(kept) ==
    {[order |-> k, answer_text |-> Strip(kept[k].text),
      is_correct |-> kept[k].is_correct, explanation |-> <<>>] :
        k \in 1..Min({Len(kept), MaxOrder})}

\* handle_question_form(request, question): the store it leaves and the level
\* of the message it adds; pk is None for question_add
handle_question_form(s, post, pk) ==
    LET Error(t) == [store |-> t, message |-> "error"]
    IN  IF \/ IsNone(post.exam) \/ post.test_number.kind = "missing"
           \/ post.question_text = <<>> \/ post.question_type = ""
        THEN Error(s)
        ELSE IF ~\E e \in s.exams : e.id = The(post.exam) THEN Error(s)
        ELSE IF post.test_number.kind # "number" THEN Error(s)
        ELSE
        LET new_question ==
                [id |-> IF IsNone(pk) THEN NextQuestionId(s) ELSE The(pk),
                 exam |-> The(post.exam), domain |-> None,
                 test_number |-> post.test_number.value,
                 question_text |-> post.question_text,
                 question_type |-> post.question_type,
                 overall_explanation |-> <<>>, is_active |-> post.is_active,
                 answers |-> {}]
            kept == NonBlank(post.answers)
            saved == [s EXCEPT !.questions =
                         {q \in @ : q.id # new_question.id}
                         \cup {[new_question EXCEPT !.answers = FormAnswers(kept)]}]
        IN  IF ~QuestionValid(new_question) THEN Error(s)
            ELSE IF Len(kept) > MaxOrder THEN Error(saved)
            ELSE IF \/ Len(kept) < MinAnswers
                    \/ \A k \in 1..Len(kept) : ~kept[k].is_correct
            THEN Error(IF IsNone(pk) THEN s ELSE saved)
            ELSE [store |-> saved, message |-> "success"]

(* The requests and the stores of the family *)

MaxRequestAnswers == 8   \* answers of a request

\* n answers, those in correct marked correct, those in blank with the text
\* blank
RequestAnswers(n, correct, blank, blankText) ==
    [k \in 1..n |-> [text |-> IF k \in blank THEN blankText ELSE Unary(k),
                     is_correct |-> k \in correct]]

AnswerLists(blankText) ==
    {RequestAnswers(n, correct, blank, blankText) :
        n \in 0..MaxRequestAnswers, correct \in SUBSET {1, 2}, blank \in SUBSET {1}}

SuggestRequests ==
    {[content_type |-> "text/plain", body |-> [kind |-> "invalid"]],
     [content_type |-> JsonContent, body |-> [kind |-> "invalid"]]}
    \cup {[content_type |-> JsonContent,
           body |-> [kind |-> "object", question_text |-> t, exam_id |-> e]] :
            t \in {Missing, Null, Num(7), Str(<<>>), Str(<<" ", "\n">>),
                   Str(<<" ">> \o Cloud), Str(PubSub)},
            e \in {Missing, Null, Num(0), Num(1), Num(3)}}

CreateRequests ==
    {[content_type |-> "text/plain", body |-> [kind |-> "invalid"]],
     [content_type |-> JsonContent, body |-> [kind |-> "invalid"]]}
    \cup {[content_type |-> JsonContent,
           body |-> [kind |-> "object", exam |-> e, test_number |-> t,
                     question_text |-> q, question_type |-> ty, answers |-> a]] :
            e \in {Missing, Atom("google_cloud_developer"), Atom("aws_developer")},
            t \in {Missing, Num(1), Num(MaxTestNumber + 1)},
            q \in {Missing, Str(<<"Q", "?">>)},
            ty \in {Missing, Atom("multiple_choice"), Atom("multiple_select"), Atom("essay")},
            a \in {Missing} \cup {List(l) : l \in AnswerLists(<<>>)}}

Posts ==
    {[exam |-> e, test_number |-> t, question_text |-> q, question_type |-> ty,
      is_active |-> TRUE, answers |-> a] :
        e \in {None, Some(1), Some(9)},
        t \in {Missing, Num(2), Num(MaxTestNumber + 1), Atom("x")},
        q \in {<<>>, <<"Q", "2">>},
        ty \in {"", "multiple_choice", "multiple_select", "essay"},
        a \in AnswerLists(<<" ">>)}

\* a question stored earlier: three answers, the second one correct
EarlierQuestion ==
    [id |-> 1, exam |-> 1, domain |-> None, test_number |-> 1,
     question_text |-> <<"Q", "1">>, question_type |-> "multiple_choice",
     overall_explanation |-> <<>>, is_active |-> TRUE,
     answers |-> StoredAnswers({1, 2, 3}, {2}, FALSE)]

WithQuestions(s, questions) ==
    [exams |-> s.exams, domains |-> s.domains, questions |-> questions]

WebStores ==
    {WithQuestions(FreshStore(TRUE, {}), {}),
     WithQuestions(FreshStore(TRUE, {}), {EarlierQuestion}),
     WithQuestions(FreshStore(FALSE, {}), {EarlierQuestion})}

(* Specification of the web handlers: one request on a store *)

InitWeb ==
    /\ store \in {Some(s) : s \in WebStores}
    /\ call = None /\ result = None
    /\ CleanIdle /\ ConvIdle /\ GenIdle

\* POST api_suggest_domains
ApiSuggestDomains ==
    /\ IsNone(call)
    /\ \E request \in SuggestRequests :
          /\ call' = Some([op |-> "api_suggest_domains", request |-> request,
                           before |-> The(store).questions])
          /\ result' = Some(api_suggest_domains(The(store), request))
    /\ UNCHANGED <<store, cleanVars, convVars, genVars>>

\* POST api_create_question
ApiCreateQuestion ==
    /\ IsNone(call)
    /\ \E request \in CreateRequests :
          LET done == api_create_question(The(store), request)
          IN  /\ call' = Some([op |-> "api_create_question", request |-> request,
                               before |-> The(store).questions])
              /\ store' = Some(done.store)
              /\ result' = Some(done.response)
    /\ UNCHANGED <<cleanVars, convVars, genVars>>

\* POST question_add: handle_question_form(request)
QuestionAdd ==
    /\ IsNone(call)
    /\ \E post \in Posts :
          LET done == handle_question_form(The(store), post, None)
          IN  /\ call' = Some([op |-> "question_add", request |-> post,
                               before |-> The(store).questions])
              /\ store' = Some(done.store)
              /\ result' = Some(done.message)
    /\ UNCHANGED <<cleanVars, convVars, genVars>>

\* POST question_edit: handle_question_form(request, question) for a stored
\* question (get_object_or_404 found it)
QuestionEdit ==
    /\ IsNone(call)
    /\ \E post \in Posts, stored \in The(store).questions :
          LET done == handle_question_form(The(store), post, Some(stored.id))
          IN  /\ call' = Some([op |-> "question_edit", request |-> post,
                               pk |-> stored.id,
                               before |-> The(store).questions])
              /\ store' = Some(done.store)
              /\ result' = Some(done.message)
    /\ UNCHANGED <<cleanVars, convVars, genVars>>

NextWeb == ApiSuggestDomains \/ ApiCreateQuestion \/ QuestionAdd \/ QuestionEdit

SpecWeb == InitWeb /\ [][NextWeb]_vars

----------------------------------------------------------------------------
(* Properties *)

\* the k-th smallest element of a set of numbers
NthOf(S, k) == CHOOSE x \in S : Cardinality({y \in S : y < x}) = k - 1

\* the quiz items of the document whose normalized question text is non-empty
KeptItems == {j \in 1..Len(The(html_content)) :
                 clean_text(The(html_content)[j].question_text) # <<>>}

\* the quiz item, as read from the file, that the k-th extracted question came from
SourceOf(k) == The(html_content)[NthOf(KeptItems, k)]

IsSingle(item) == item.question_list = Some("single")
IsMulti(item) == item.question_list = Some("multiple")

Range(s) == {s[k] : k \in 1..Len(s)}
NoDuplicates(s) == \A a, b \in 1..Len(s) : a # b => s[a] # s[b]

\* what the structural marker or the explanation text yields, before any default
Detected(item) ==
    IF IsSingle(item) THEN FirstMarked(item.answer_items)
    ELSE IF IsMulti(item) THEN LettersFromExplanation(item)
    ELSE <<>>

\* the explanation text of the item, "" without a response container
ExplanationOf(item) ==
    IF IsNone(item.response) THEN <<>> ELSE ResponseText(The(item.response))

\* C1: every extracted question has a non-empty, duplicate-free list of correct
\* positions: exactly one for a single-answer item, at least two for a
\* multi-answer item.
C1_CorrectAnswersShape ==
    \A k \in 1..Len(questions_data) :
        LET ca == questions_data[k].correct_answers
        IN  /\ Len(ca) >= 1
            /\ NoDuplicates(ca)
            /\ IsSingle(SourceOf(k)) => Len(ca) = 1
            /\ IsMulti(SourceOf(k)) => Len(ca) >= 2

C1_Witness ==
    /\ Len(questions_data) = 1
    /\ IsMulti(SourceOf(1))
    /\ Len(Detected(SourceOf(1))) = 3
    /\ Len(questions_data[1].correct_answers) = 3

\* C2: for a single-answer item with exactly one answer item marked correct
\* (every answer item having its label, so that document order is slot order),
\* the result is the one position that the marked item has in document order.
C2_MarkedPositionIsDocumentOrder ==
    \A k \in 1..Len(questions_data) :
        LET items == SourceOf(k).answer_items
            marked == {j \in 1..Len(items) : items[j].correct}
        IN  (/\ IsSingle(SourceOf(k))
             /\ Cardinality(marked) = 1
             /\ \A j \in 1..Len(items) : ~IsNone(items[j].label))
            => \A j \in marked : questions_data[k].correct_answers = <<j>>

\* C3: for a multi-answer item whose explanation holds "Correct answers:" and a
\* comma-separated list of two or more distinct letters, the result is exactly
\* the positions of the listed letters, whatever text follows the list.
C3_CommaListWhateverFollows ==
    \A k \in 1..Len(questions_data) :
        \A lead \in Leads, gap \in Gaps, list \in CommaLists, trail \in Trails :
            (/\ IsMulti(SourceOf(k))
             /\ ExplanationOf(SourceOf(k))
                    = Concat(<<lead, CorrectAnswersColon, gap, list.text, trail>>))
            => Range(questions_data[k].correct_answers) = Range(list.positions)

\* C4: for a multi-answer item whose explanation gives the letters in the
\* "A and C" form or in the "A C" form, the result is the positions of every
\* listed letter, as for "A, C".
C4_AndAndSpaceForms ==
    \A k \in 1..Len(questions_data) :
        \A phrase \in Phrases, gap \in Gaps, list \in AndLists \cup SpaceLists :
            (/\ IsMulti(SourceOf(k))
             /\ ExplanationOf(SourceOf(k)) = Concat(<<phrase, gap, list.text>>))
            => Range(questions_data[k].correct_answers) = Range(list.positions)

\* C5: with nothing detected the result is [1] for a single-answer or unknown
\* item and [1, 2] for a multi-answer item; with one position p detected for a
\* multi-answer item it is [p, 2] if p = 1 and [p, 1] otherwise.
C5_DefaultingPolicy ==
    \A k \in 1..Len(questions_data) :
        LET item == SourceOf(k)
            found == Detected(item)
            ca == questions_data[k].correct_answers
        IN  /\ (found = <<>> /\ ~IsMulti(item)) => ca = <<1>>
            /\ (found = <<>> /\ IsMulti(item)) => ca = <<1, 2>>
            /\ (Len(found) = 1 /\ IsMulti(item))
                  => ca = <<found[1], IF found[1] = 1 THEN 2 ELSE 1>>

C5_Witness ==
    /\ Len(questions_data) = 1
    /\ IsMulti(SourceOf(1))
    /\ Detected(SourceOf(1)) = <<2>>
    /\ questions_data[1].correct_answers = <<2, 1>>

\* C6: cleaning a cleaned text changes nothing.
C6_CleanIdempotent == ~IsNone(twice) => The(twice) = The(once)

\* C7: a cleaned text has no whitespace at either end, no two adjacent
\* whitespace characters and no "&nbsp;"; None and "" are cleaned to "".
C7_CleanResultShape ==
    ~IsNone(once) =>
        LET r == The(once)
        IN  /\ r # <<>> => ~IsSpace(r[1]) /\ ~IsSpace(r[Len(r)])
            /\ \A k \in 1..Len(r) - 1 : ~(IsSpace(r[k]) /\ IsSpace(r[k + 1]))
            /\ \A k \in 1..Len(r) : r[k] # NBSP
            /\ (IsNone(raw) \/ raw = Some(<<>>)) => r = <<>>

\* C8: the output holds one row per quiz item with a non-empty normalized
\* question text, in document order, and none for the others; an item without
\* answer list, labels or explanation still gets its row, with empty fields.
C8_OneRowPerQuestion ==
    (pc = "done") =>
        /\ Len(csv_rows) = Cardinality(KeptItems)
        /\ \A k \in 1..Len(csv_rows) :
              LET item == SourceOf(k)
              IN  /\ csv_rows[k].Question = clean_text(item.question_text)
                  /\ csv_rows[k].Question # <<>>
                  /\ IsNone(item.question_list) => csv_rows[k].Question_Type = ""
                  /\ (\A j \in 1..Len(item.answer_items) :
                          IsNone(item.answer_items[j].label))
                        => \A i \in 1..MaxSlots : csv_rows[k].Answer_Option[i] = <<>>
                  /\ IsNone(item.response) => csv_rows[k].Overall_Explanation = <<>>

C8_Witness ==
    /\ pc = "done"
    /\ Len(The(html_content)) = 2
    /\ KeptItems = {2}
    /\ Len(csv_rows) = 1
    /\ IsNone(The(html_content)[2].question_list)
    /\ IsNone(The(html_content)[2].response)
    /\ ~IsNone(The(html_content)[1].response)

\* C9: the Question Type of every row is "multiple-choice" for a single-answer
\* question and "multi-select" for a multi-answer or unknown one, in the
\* converter's rows and in the generator's rows.
C9_QuestionTypeLabel ==
    /\ \A k \in 1..Len(csv_rows) :
          csv_rows[k].Question_Type =
              IF IsSingle(SourceOf(k)) THEN "multiple-choice" ELSE "multi-select"
    /\ \A k \in 1..Len(gen_rows) :
          gen_rows[k].Question_Type =
              IF The(question).question_type = "multiple_choice"
              THEN "multiple-choice" ELSE "multi-select"

\* the texts of all fields of a row
RowTexts(row) ==
    {row.Question, row.Overall_Explanation, row.Domain}
    \cup Range(row.Answer_Option) \cup Range(row.Explanation)

\* C10: slot i of a row (i = 1..6) holds the text and the explanation of the
\* i-th answer when there is one and two empty strings otherwise; the texts of
\* the answers after the sixth are in no field of the row.
C10_SixSlots ==
    /\ \A k \in 1..Len(csv_rows) :
          LET d == questions_data[k]
              row == csv_rows[k]
          IN  /\ DOMAIN row.Answer_Option = 1..MaxSlots
              /\ DOMAIN row.Explanation = 1..MaxSlots
              /\ \A i \in 1..MaxSlots :
                    IF i <= Len(d.answers)
                    THEN row.Answer_Option[i] = d.answers[i]
                         /\ row.Explanation[i] = d.explanations[i]
                    ELSE row.Answer_Option[i] = <<>> /\ row.Explanation[i] = <<>>
              /\ \A j \in MaxSlots + 1..Len(d.answers) : d.answers[j] \notin RowTexts(row)
    /\ \A k \in 1..Len(gen_rows) :
          LET answers == The(question).answers
              Rank(a) == Cardinality({b \in answers : b.order < a.order}) + 1
              row == gen_rows[k]
          IN  /\ DOMAIN row.Answer_Option = 1..MaxSlots
              /\ DOMAIN row.Explanation = 1..MaxSlots
              /\ \A a \in answers :
                    IF Rank(a) <= MaxSlots
                    THEN row.Answer_Option[Rank(a)] = a.answer_text
                         /\ row.Explanation[Rank(a)] = a.explanation
                    ELSE a.answer_text \notin RowTexts(row)
              /\ \A i \in 1..MaxSlots :
                    i > Cardinality(answers)
                    => row.Answer_Option[i] = <<>> /\ row.Explanation[i] = <<>>

C10_Witness ==
    /\ pc = "done"
    /\ Len(csv_rows) = 1
    /\ Len(questions_data[1].answers) = MaxSlots + 2
    /\ csv_rows[1].Answer_Option[MaxSlots] = questions_data[1].answers[MaxSlots]

StrictlyAscending(s) == \A a, b \in 1..Len(s) : a < b => s[a] < s[b]

\* C11: the Correct Answers field of every exported row lists the correct
\* positions in strictly ascending numeric order, in the converter's rows
\* (letter lists in any listed order, defaulted positions) and in the
\* generator's rows (stored answers).
C11_CorrectAnswersAscending ==
    /\ \A k \in 1..Len(csv_rows) : StrictlyAscending(csv_rows[k].Correct_Answers)
    /\ \A k \in 1..Len(gen_rows) : StrictlyAscending(gen_rows[k].Correct_Answers)

\* C12: every exported row has a non-empty Correct Answers field, in the
\* converter's rows and in the generator's rows, a stored question none of
\* whose answers is marked correct included.
C12_CorrectAnswersNonEmpty ==
    /\ \A k \in 1..Len(csv_rows) : csv_rows[k].Correct_Answers # <<>>
    /\ \A k \in 1..Len(gen_rows) : gen_rows[k].Correct_Answers # <<>>

HasUrl(url) == ~IsNone(url) /\ The(url) # <<>>

\* the line an embedded image stands for in the explanation
ExpectedImage(img) ==
    IF ~IsNone(img.alt) /\ The(img.alt) # <<>>
    THEN <<"I","m","a","g","e"," ","(">> \o The(img.alt) \o <<")",":"," ">> \o The(img.src)
    ELSE <<"I","m","a","g","e",":"," ">> \o The(img.src)

\* the line an embedded link stands for in the explanation
ExpectedLink(link) ==
    IF clean_text(Some(link.text)) # <<>>
    THEN clean_text(Some(link.text)) \o <<":"," ">> \o The(link.href)
    ELSE The(link.href)

\* the fragments of one paragraph: text, then images, then links
ExpectedFragments(p) ==
    LET imgs == SelectSeq(p.images, LAMBDA i : HasUrl(i.src))
        lnks == SelectSeq(p.links, LAMBDA l : HasUrl(l.href))
    IN  (IF clean_text(Some(p.text)) # <<>> THEN <<clean_text(Some(p.text))>> ELSE <<>>)
        \o [i \in 1..Len(imgs) |-> ExpectedImage(imgs[i])]
        \o [i \in 1..Len(lnks) |-> ExpectedLink(lnks[i])]

RECURSIVE AllFragments(_)
AllFragments(ps) ==
    IF ps = <<>> THEN <<>> ELSE ExpectedFragments(Head(ps)) \o AllFragments(Tail(ps))

RECURSIVE JoinedWithBar(_)
JoinedWithBar(parts) ==
    IF parts = <<>> THEN <<>>
    ELSE IF Len(parts) = 1 THEN parts[1]
    ELSE parts[1] \o <<" ","|"," ">> \o JoinedWithBar(Tail(parts))

\* C13: the overall explanation of an extracted question is the " | "-joined
\* fragments of its explanation paragraphs in document order, each paragraph
\* giving its normalized text if non-empty, then one line per image, then one
\* line per link; it is the empty string without an explanation container.
C13_OverallExplanationFragments ==
    \A k \in 1..Len(questions_data) :
        LET item == SourceOf(k)
        IN  questions_data[k].overall_explanation =
                IF IsNone(item.response) THEN <<>>
                ELSE JoinedWithBar(AllFragments(The(item.response)))

C13_Witness ==
    /\ pc = "done"
    /\ Len(questions_data) = 1
    /\ ~IsNone(SourceOf(1).response)
    /\ \E j \in 1..Len(The(SourceOf(1).response)) :
          LET p == The(SourceOf(1).response)[j]
          IN  /\ clean_text(Some(p.text)) # <<>>
              /\ \E i \in 1..Len(p.images) : HasUrl(p.images[i].src)
              /\ \E i \in 1..Len(p.links) : HasUrl(p.links[i].href)
    /\ questions_data[1].overall_explanation # <<>>
    /\ csv_rows[1].Overall_Explanation = questions_data[1].overall_explanation

----------------------------------------------------------------------------
(* Properties of the DomainSuggester *)

Called(op) == ~IsNone(call) /\ The(call).op = op

\* the (domain name, score) pairs of the taxonomy of the exam for the text
ScoresOf(question_text, exam_name) ==
    analyze_question_text(question_text, ExamKeywords(exam_name))

\* C14: suggest_domains returns at most top_n suggestions, by non-increasing
\* raw score, each with a raw score above 0, and they are the positive-scoring
\* domains among the top_n highest-scoring ones: no domain left out scores
\* higher than a domain in the result.
C14_TopPositiveDomains ==
    Called("suggest_domains") =>
        LET c == The(call)
            r == The(result)
            all == ScoresOf(c.question_text, c.exam_name)
            positive == {j \in 1..Len(all) : all[j].score > 0}
            named(k) == {j \in 1..Len(all) : all[j].domain_name = r[k].domain_name}
        IN  /\ Len(r) <= c.top_n
            /\ Len(r) = Min({c.top_n, Cardinality(positive)})
            /\ \A k \in 1..Len(r) :
                  /\ r[k].score > 0
                  /\ k < Len(r) => r[k].score >= r[k + 1].score
                  /\ \E j \in named(k) : all[j].score = r[k].score
                  /\ \A i \in 1..Len(r) : i # k => r[i].domain_name # r[k].domain_name
            /\ \A j \in 1..Len(all) :
                  (\A k \in 1..Len(r) : j \notin named(k))
                      => \A k \in 1..Len(r) : all[j].score <= r[k].score

C14_Witness ==
    /\ Called("suggest_domains")
    /\ The(call).top_n = DefaultTopN
    /\ Len(The(result)) = DefaultTopN
    /\ \A j \in 1..4 : ScoresOf(The(call).question_text, The(call).exam_name)[j].score > 0
    /\ The(result)[2].score = The(result)[3].score

\* four times the claimed transform of x = score / max * 100, times max:
\* 85 + 0.5(x - 80), 70 + 0.75(x - 60), 50 + (x - 40), 30 + (x - 20), 1.5x,
\* clamped to [5, 95]
Transform4(score, max) ==
    LET x == 100 * score
        t == IF x >= 80 * max THEN 340 * max + 2 * (x - 80 * max)
             ELSE IF x >= 60 * max THEN 280 * max + 3 * (x - 60 * max)
             ELSE IF x >= 40 * max THEN 200 * max + 4 * (x - 40 * max)
             ELSE IF x >= 20 * max THEN 120 * max + 4 * (x - 20 * max)
             ELSE 6 * x
    IN  IF t < 20 * max THEN 20 * max ELSE IF t > 380 * max THEN 380 * max ELSE t

Abs(n) == IF n < 0 THEN 0 - n ELSE n

\* C15: the confidence computed for every suggestion is the piecewise
\* transform of score / max-score * 100 clamped to [5, 95], and the suggestion
\* reports it to one decimal; every reported confidence lies in [5, 95] and
\* the confidence never increases from one rank to the next.
C15_ConfidenceTransform ==
    Called("suggest_domains") =>
        LET r == The(result)
        IN  \A k \in 1..Len(r) :
                LET max == r[1].score
                IN  /\ ConfDen(max) = 4 * max
                    /\ calculate_confidence(r[k].score, max) = Transform4(r[k].score, max)
                    /\ 2 * Abs(r[k].confidence * 4 * max - 10 * Transform4(r[k].score, max))
                           <= 4 * max
                    /\ r[k].confidence >= 50 /\ r[k].confidence <= 950
                    /\ k < Len(r) => r[k].confidence >= r[k + 1].confidence

C15_Witness ==
    /\ Called("suggest_domains")
    /\ Len(The(result)) = 3
    /\ The(result)[1].confidence = 950
    /\ The(result)[2].confidence < 950 /\ The(result)[2].confidence > 50
    /\ The(result)[3].confidence = 50
    /\ 6 * 100 * The(result)[3].score < 20 * The(result)[1].score

\* the tier of a reported confidence, in tenths
TierOf(confidence) ==
    IF confidence >= 750 THEN "High"
    ELSE IF confidence >= 550 THEN "Medium"
    ELSE IF confidence >= 350 THEN "Low"
    ELSE "Very Low"

\* C16: in every suggestion returned by suggest_domains the tier label is the
\* tier of the confidence reported in the same suggestion: High from 75,
\* Medium from 55, Low from 35, Very Low below.
C16_TierMatchesReportedConfidence ==
    Called("suggest_domains") =>
        \A k \in 1..Len(The(result)) :
            The(result)[k].confidence_level = TierOf(The(result)[k].confidence)

\* what one phrase adds according to the claim, in hundredths
PhraseValue(text, phrase) ==
    LET words == Split(phrase)
        matching == Cardinality({k \in 1..Len(words) : Contains(text, words[k])})
    IN  IF Contains(text, phrase)
        THEN CountFrom(text, phrase, 1)
             * (IF \E k \in 1..Len(phrase) : phrase[k] = " " THEN 15 ELSE 10)
             * (10 + 3 * Len(words))
        ELSE IF Len(words) >= 2 /\ 10 * matching >= 6 * Len(words) THEN 30 * matching
        ELSE 0

RECURSIVE PhraseSum(_, _)
\* the sum of the values of the phrases of a set
PhraseSum(text, phrases) ==
    IF phrases = {} THEN 0
    ELSE LET phrase == CHOOSE x \in phrases : TRUE
         IN  PhraseValue(text, phrase) + PhraseSum(text, phrases \ {phrase})

\* the raw score of a domain according to the claim: each distinct phrase of
\* a tier counted once
ClaimedScore(text, categories) ==
      3 * PhraseSum(text, Range(categories.high_weight))
    + 2 * PhraseSum(text, Range(categories.medium_weight))
    + PhraseSum(text, Range(categories.low_weight))

\* C17: the raw score of every suggested domain is the sum over its tiers of
\* the tier weight times the sum, over the distinct keyword phrases of the
\* tier, of the verbatim value or else the partial value of the phrase.
C17_RawScoreOverDistinctPhrases ==
    Called("suggest_domains") =>
        \A k \in 1..Len(The(result)) :
            \A j \in 1..Len(ExamKeywords(The(call).exam_name)) :
                LET categories == ExamKeywords(The(call).exam_name)[j]
                IN  categories.domain_name = The(result)[k].domain_name
                    => The(result)[k].score
                         = ClaimedScore(normalize_text(The(call).question_text), categories)

\* an active exam with the id exists in the store
ActiveExam(exam_id) ==
    \E e \in The(store).exams : e.id = exam_id /\ e.is_active

\* C19: suggest_domains returns the empty list when the question text is
\* empty, the exam identifier is empty or the exam identifier has no taxonomy
\* entry; get_domain_suggestions_for_exam returns the empty list when no
\* active exam has the id.
C19_DegenerateInputsGiveEmptyList ==
    /\ Called("suggest_domains") =>
          LET c == The(call)
          IN  (c.question_text = <<>> \/ c.exam_name = ""
               \/ c.exam_name \notin DOMAIN DOMAIN_KEYWORDS)
                  => result = Some(<<>>)
    /\ Called("get_domain_suggestions_for_exam") =>
          (~ActiveExam(The(call).exam_id) => result = Some(<<>>))

C19_Witness ==
    /\ Called("get_domain_suggestions_for_exam")
    /\ The(call).top_n = DefaultTopN
    /\ \E e \in The(store).exams :
          /\ e.id = The(call).exam_id /\ ~e.is_active
          /\ Len(suggest_domains(The(call).question_text, e.name, DefaultTopN)) = DefaultTopN
    /\ result = Some(<<>>)

\* the suggestion b is the list's first one, with the identity of the active
\* Domain record of the exam that bears its name
IsTopOf(b, list, exam_id) ==
    /\ list # <<>>
    /\ b.domain_name = list[1].domain_name
    /\ b.score = list[1].score
    /\ b.confidence = list[1].confidence
    /\ b.confidence_level = list[1].confidence_level
    /\ \E d \in The(store).domains :
          /\ d.exam = exam_id /\ d.name = b.domain_name /\ d.is_active
          /\ b.domain_id = Some(d.id)

\* the list gives no best domain: it is empty, or its first suggestion is
\* below the threshold or names no active Domain record of the exam
NoBestIn(list, exam_id, min_confidence) ==
    \/ list = <<>>
    \/ list[1].confidence < min_confidence
    \/ ~\E d \in The(store).domains :
            d.exam = exam_id /\ d.name = list[1].domain_name /\ d.is_active

\* C20: get_best_domain_for_question returns the top-ranked suggestion if and
\* only if one exists, its confidence is at least min_confidence and its
\* domain name resolves to an active Domain record of the exam; otherwise it
\* returns None, and it never returns another suggestion.
C20_BestIsTopOrNone ==
    Called("get_best_domain_for_question") =>
        LET c == The(call)
            best == The(result)
            list == IF ActiveExam(c.exam_id)
                    THEN suggest_domains(c.question_text,
                                         (CHOOSE e \in The(store).exams : e.id = c.exam_id).name,
                                         DefaultTopN)
                    ELSE <<>>
        IN  IF NoBestIn(list, c.exam_id, c.min_confidence)
            THEN IsNone(best)
            ELSE ~IsNone(best) /\ IsTopOf(The(best), list, c.exam_id)

C20_Witness ==
    /\ Called("get_best_domain_for_question")
    /\ The(call).min_confidence = DefaultMinConfidence
    /\ ~IsNone(The(result))
    /\ The(The(result)).domain_name = Section3
    /\ The(The(result)).domain_id = Some(3)
    /\ \E d \in The(store).domains : d.name = Section1 /\ ~d.is_active

\* C22: extract_question_data and determine_correct_answers leave the parsed
\* tree as it was parsed: no node of the document is removed or altered.
C22_TreeUnchanged ==
    pc \in {"extract", "done"} => soup = The(html_content)

C25_PositionsWithinOptions ==
    \A k \in 1..Len(questions_data) :
        \A p \in Range(questions_data[k].correct_answers) :
            p \in 1..Len(questions_data[k].answers)

\* C26: in every generator row each position listed in Correct Answers is
\* between 1 and 6 and names a slot holding the non-empty text of a correct
\* answer; conversely every correct answer exported in a slot is listed.
C26_CorrectAnswersNameSlots ==
    \A k \in 1..Len(gen_rows) :
        LET row == gen_rows[k]
            answers == OrderByOrder(The(question).answers)
        IN  /\ \A p \in Range(row.Correct_Answers) :
                  /\ p \in 1..MaxSlots
                  /\ row.Answer_Option[p] # <<>>
                  /\ answers[p].is_correct
                  /\ row.Answer_Option[p] = answers[p].answer_text
            /\ \A i \in 1..Min({MaxSlots, Len(answers)}) :
                  answers[i].is_correct => i \in Range(row.Correct_Answers)

\* the first suggestion of the list names an active Domain record of the exam
TopResolves(list, exam_id) ==
    \E d \in The(store).domains :
        d.exam = exam_id /\ d.name = list[1].domain_name /\ d.is_active

\* C27: in every non-empty result of suggest_domains the first suggestion has
\* confidence 95 and tier "High"; so for a min_confidence of at most 95
\* get_best_domain_for_question gives the top suggestion exactly when there is
\* one and its domain resolves to a Domain record.
C27_TopSuggestionIs95High ==
    /\ (Called("suggest_domains") /\ The(result) # <<>>) =>
          /\ The(result)[1].confidence = 950
          /\ The(result)[1].confidence_level = "High"
    /\ (Called("get_best_domain_for_question") /\ The(call).min_confidence <= 950) =>
          LET c == The(call)
              list == get_domain_suggestions_for_exam(The(store), c.question_text,
                                                      c.exam_id, 1)
          IN  ~IsNone(The(result)) <=> (list # <<>> /\ TopResolves(list, c.exam_id))

C27_Witness ==
    /\ Called("suggest_domains")
    /\ Len(The(result)) >= 2
    /\ The(result)[1].score > The(result)[2].score
    /\ The(result)[1].confidence = 950
    /\ The(result)[2].confidence < 950

C27_BestWitness ==
    /\ Called("get_best_domain_for_question")
    /\ The(call).min_confidence = 950
    /\ ~IsNone(The(result))
    /\ The(The(result)).confidence = 950

\* the exam is an active google_cloud_developer exam holding the domains
\* create_default_domains gave it, all of them active
FreshExam(exam_id) ==
    /\ \E e \in The(store).exams :
          e.id = exam_id /\ e.is_active /\ e.name = "google_cloud_developer"
    /\ \A k \in 1..Len(DefaultDomainNames) :
          \E d \in The(store).domains :
              d.exam = exam_id /\ d.name = DefaultDomainNames[k] /\ d.is_active

\* C28: every domain name of the google_cloud_developer taxonomy is the name
\* of a default domain, so on a fresh exam no suggestion of
\* get_domain_suggestions_for_exam has domain_id None, and
\* get_best_domain_for_question returns whichever domain the taxonomy ranks
\* first.
C28_TaxonomyNamesResolve ==
    /\ (Called("get_domain_suggestions_for_exam") /\ FreshExam(The(call).exam_id)) =>
          \A k \in 1..Len(The(result)) :
              /\ The(result)[k].domain_name \in Range(DefaultDomainNames)
              /\ ~IsNone(The(result)[k].domain_id)
    /\ (Called("get_best_domain_for_question") /\ FreshExam(The(call).exam_id)
        /\ The(call).min_confidence <= 950) =>
          LET top == suggest_domains(The(call).question_text, "google_cloud_developer", 1)
          IN  top # <<>> =>
                  /\ ~IsNone(The(result))
                  /\ The(The(result)).domain_name = top[1].domain_name

\* the rows the generator holds for the questions added since the last clear
RowsOfAdded == [k \in 1..Len(added) |-> GenRow(added[k])]

\* C24: after any sequence of add_question, add_questions and clear the
\* generator holds one row per question added since the last clear, in the
\* order added; generate_csv_content returns the 17-column header followed by
\* those rows; save_to_file writes what generate_csv_content returns; and
\* generate_csv_content, save_to_file and get_stats leave the rows as they are.
C24_ContentFollowsAdded ==
    /\ Len(HEADERS) = 17
    /\ gen_rows = RowsOfAdded
    /\ Called("generate_csv_content") =>
          /\ Len(The(result)) = 1 + Len(added)
          /\ The(result)[1] = HEADERS
          /\ \A k \in 1..Len(added) : The(result)[k + 1] = RowFields(GenRow(added[k]))
    /\ Called("save_to_file") => The(result) = generate_csv_content(gen_rows)
    /\ Called("get_stats") => The(result).total_questions = Len(added)

C24_Witness ==
    /\ Called("generate_csv_content")
    /\ Len(added) = 2
    /\ added[1].question_text = <<"B", ",", "\n">>
    /\ added[2] = The(question)
    /\ added[1] # added[2]
    /\ Len(The(result)) = 3

\* the question text of the request is missing, null or blank
NoQuestionText(data) ==
    \/ data.question_text.kind \in {"missing", "null"}
    \/ data.question_text.kind = "string" /\ Strip(data.question_text.value) = <<>>

\* C21: api_suggest_domains answers every JSON request whose question text is
\* missing, null or blank, or whose exam id is missing, with status 400 and
\* success false, and computes no suggestions.
C21_BadSuggestRequestGets400 ==
    Called("api_suggest_domains") =>
        LET request == The(call).request
        IN  (/\ request.content_type = JsonContent
             /\ request.body.kind = "object"
             /\ NoQuestionText(request.body) \/ request.body.exam_id.kind = "missing")
            => /\ The(result).status = 400
               /\ ~The(result).success
               /\ IsNone(The(result).data)

\* the call was turned down: an error message, or a response without success
Rejected ==
    IF Called("question_add") \/ Called("question_edit")
    THEN The(result) = "error"
    ELSE ~The(result).success

\* C29: when handle_question_form rejects a submission the stored questions
\* and answers are what they were before it: nothing new after an add, the
\* question and its answers as they were after an edit.
C29_RejectedFormStoresNothing ==
    ((Called("question_add") \/ Called("question_edit")) /\ Rejected)
        => The(store).questions = The(call).before

\* Question and Answer records as the claim wants them stored
WellFormed(q) ==
    LET correct == {a \in q.answers : a.is_correct}
    IN  /\ Cardinality(q.answers) \in MinAnswers..MaxOrder
        /\ correct # {}
        /\ q.question_type = "multiple_choice" => Cardinality(correct) = 1

\* C30: every question api_create_question stores has between 3 and 7 stored
\* answers, at least one of them correct and exactly one when the question is
\* multiple_choice; a request turned down gets 400 and stores nothing.
C30_CreatedQuestionsWellFormed ==
    Called("api_create_question") =>
        /\ \A q \in The(store).questions : WellFormed(q)
        /\ Rejected => The(store).questions = The(call).before

\* the keys of the dict extract_question_data returns
QuestionDataKeys ==
    {"question", "question_type", "answers", "explanations", "correct_answers",
     "overall_explanation", "domain"}

====
